---- MODULE Spec2Model ----
(***************************************************************************)
(* A model of the parameter validation engine of node-restify-warden:      *)
(* lib/validate.js (validateParams, validateUnknowns, crossValidate,       *)
(* errResult), the error builders of lib/errors.js and the message         *)
(* constants of lib/constants.js.                                          *)
(*                                                                         *)
(* One behaviour of Spec is one call of validateParams(opts, arg, params,  *)
(* callback).  The schema, the input and every outcome a field validator   *)
(* or an after function reports are chosen nondeterministically; the       *)
(* validators call back in any order.                                      *)
(* StockSpec is a call whose one field is checked by a validator of        *)
(* lib/validators.js, LiveSpec is Spec with every validator and after      *)
(* function calling back, and PairSpec is two calls with one schema.       *)
(*                                                                         *)
(* JavaScript values are modelled as records so that TLC can compare any   *)
(* two of them:                                                            *)
(*   undefined, null             [t |-> "undefined"], [t |-> "null"]       *)
(*   an object used as a mapping [t |-> "object", map |-> key :> value..]  *)
(*   an error object             a record holding the object's own         *)
(*                               properties; hasOwnProperty(p) is          *)
(*                               p \in DOMAIN e                            *)
(*   a string used as `field`    [arr |-> FALSE, names |-> <<s>>]          *)
(*   an array of strings         [arr |-> TRUE, names |-> <<s1, ...>>]     *)
(***************************************************************************)
EXTENDS Integers, Sequences, FiniteSets, TLC

VARIABLES
    opts,            \* the schema object handed to validateParams
    params,          \* the input object handed to validateParams
    pc,              \* "start", "fields", "cross" or "done"
    toValidate,      \* validateParams' task list
    pending,         \* indices of tasks whose validator has not called back
    errs,            \* the pass's error list
    validatedParams, \* the pass's result mapping
    afterPending,    \* index of the after function awaiting its callback, or 0
    callbacks,       \* the invocations of the caller's callback, in order
    invoked,         \* history: the validator invocations, in order
    afterInvoked,    \* history: the after function invocations, in order
    outcomes,        \* history: task index -> the outcome its validator reported
    afterOutcomes,   \* history: what each after function reported, in order
    phases,          \* history: the phases the pass went through, in order
    stock,           \* the stock validator the schema's field uses and the
                     \* value it is given, when the pass uses one
    other            \* the variables of a second call of validateParams with
                     \* the same schema object, when there is one

vars == <<opts, params, pc, toValidate, pending, errs, validatedParams,
          afterPending, callbacks, invoked, afterInvoked, outcomes,
          afterOutcomes, phases, stock, other>>

(***************************************************************************)
(* Bounds of the model.                                                    *)
(***************************************************************************)
\* The largest number of after functions a schema declares.
MaxAfter == 2

\* The number of field names a schema may declare.
NumFields == 2

\* The keys an input object may own, in insertion order.
ParamKeys == <<"ip", "name", "hal">>

\* The field names a schema may declare, in the insertion order of the
\* schema's `required` and `optional` objects: the first NumFields keys (or
\* all of them).
FieldNames ==
    SubSeq(ParamKeys, 1, IF NumFields < Len(ParamKeys) THEN NumFields ELSE Len(ParamKeys))

\* The key a validator injects through its multi mapping besides its own.
InjectedKey == "bar"

(***************************************************************************)
(* JavaScript values.                                                      *)
(***************************************************************************)
Undefined == [t |-> "undefined"]
Null == [t |-> "null"]
Obj(m) == [t |-> "object", map |-> m]
EmptyMap == << >>

Str(s) == [arr |-> FALSE, names |-> <<s>>]
Arr(ss) == [arr |-> TRUE, names |-> ss]

\* A message string; `list` holds the names joined to the text with ', '.
Msg(text) == [text |-> text, list |-> << >>]

\* input[key]
RawVal(key) == [t |-> "raw", key |-> key]

Range(s) == {s[i] : i \in DOMAIN s}

\* The subsequences of s (the elements of s kept in the order of s).
RECURSIVE SubSeqs(_)
SubSeqs(s) ==
    IF s = << >> THEN {<< >>}
    ELSE LET rest == SubSeqs(Tail(s))
         IN  rest \cup {<<Head(s)>> \o r : r \in rest}

(***************************************************************************)
(* lib/constants.js                                                        *)
(***************************************************************************)
INVALID_PARAMS == "Invalid parameters"
UNKNOWN_PARAMS == "Unknown parameters"
PARAMETERS_ARE_OBJECTS == "Parameters must be objects"

(***************************************************************************)
(* lib/errors.js                                                           *)
(***************************************************************************)
MSG_missingParam == "Missing parameter"

\* message || constants.msg.INVALID_PARAMS : the empty text stands for a
\* message that is not given.
invalidParam(field, message) ==
    [field |-> Str(field),
     code |-> "InvalidParameter",
     message |-> IF message = "" THEN Msg(INVALID_PARAMS) ELSE Msg(message)]

\* msg += ': ' + params.join(', ')
unknownParams(names) ==
    [field |-> Arr(names),
     code |-> "UnknownParameters",
     message |-> [text |-> UNKNOWN_PARAMS, list |-> names]]

missingParam(field) ==
    [field |-> Str(field),
     code |-> "MissingParameter",
     message |-> Msg(MSG_missingParam)]

InvalidParamsError(message, errors) ==
    [name |-> "InvalidParamsError",
     restCode |-> "InvalidParameters",
     statusCode |-> 422,
     message |-> message,
     errors |-> errors]

(***************************************************************************)
(* The comparison a.field > b.field of errResult's comparator.  A string   *)
(* compares by its UTF-16 code units; an array operand is first converted  *)
(* to the string of its elements joined with ','.                          *)
(***************************************************************************)
CharCodes(s) ==
    CASE s = "ip" -> <<105, 112>>
      [] s = "name" -> <<110, 97, 109, 101>>
      [] s = "hal" -> <<104, 97, 108>>
      [] s = "bar" -> <<98, 97, 114>>
      [] s = "parameters" -> <<112, 97, 114, 97, 109, 101, 116, 101, 114, 115>>

RECURSIVE ToPrimitive(_)
ToPrimitive(names) ==
    IF names = << >> THEN << >>
    ELSE IF Len(names) = 1 THEN CharCodes(names[1])
    ELSE CharCodes(names[1]) \o <<44>> \o ToPrimitive(Tail(names))

StrLess(s, t) ==
    \E i \in 1..(Len(s) + 1) :
        /\ \A j \in 1..(i - 1) : j <= Len(t) /\ s[j] = t[j]
        /\ \/ i = Len(s) + 1 /\ i <= Len(t)
           \/ i <= Len(s) /\ i <= Len(t) /\ s[i] < t[i]

FieldGreater(a, b) == StrLess(ToPrimitive(b.names), ToPrimitive(a.names))

CompareDescending(a, b) == IF FieldGreater(b.field, a.field) THEN 1 ELSE -1

\* function (a, b) { return (a.field > b.field) ? 1 : -1; }
Compare(a, b) == IF FieldGreater(a.field, b.field) THEN 1 ELSE -1

(***************************************************************************)
(* Array.prototype.sort with that comparator.  The comparator never        *)
(* answers 0, so the order of two errors with equal fields is left to the  *)
(* engine: both sorts V8 has shipped for short arrays are modelled, and    *)
(* errResult's caller picks either.                                        *)
(***************************************************************************)
\* V8 < 7.0, InsertionSort: the position after which `element` is put, the
\* scan going down from j while comparefn(a[j], element) > 0.
RECURSIVE InsertAfter(_, _, _)
InsertAfter(s, element, j) ==
    IF j = 0 THEN 0
    ELSE IF Compare(s[j], element) > 0 THEN InsertAfter(s, element, j - 1)
    ELSE j

RECURSIVE InsertionSortPrefix(_, _)
InsertionSortPrefix(a, n) ==
    IF n = 0 THEN << >>
    ELSE LET s == InsertionSortPrefix(a, n - 1)
             p == InsertAfter(s, a[n], n - 1)
         IN  SubSeq(s, 1, p) \o <<a[n]>> \o SubSeq(s, p + 1, n - 1)

InsertionSort(a) == InsertionSortPrefix(a, Len(a))

Reverse(s) == [i \in 1..Len(s) |-> s[Len(s) + 1 - i]]

\* V8 >= 7.0, TimSort's CountAndMakeRun: the length of the run a[1..] starts
\* with, idx being the next index to look at.
RECURSIVE RunLength(_, _, _)
RunLength(a, descending, idx) ==
    IF idx > Len(a) THEN idx - 1
    ELSE LET order == Compare(a[idx], a[idx - 1])
         IN  IF descending
             THEN IF order >= 0 THEN idx - 1
                  ELSE RunLength(a, descending, idx + 1)
             ELSE IF order < 0 THEN idx - 1
                  ELSE RunLength(a, descending, idx + 1)

\* TimSort's BinaryInsertionSort: the index `pivot` is put at, searched in
\* a[left .. right - 1].
RECURSIVE BinarySearch(_, _, _, _)
BinarySearch(a, pivot, left, right) ==
    IF left >= right THEN left
    ELSE LET mid == left + ((right - left) \div 2)
         IN  IF Compare(pivot, a[mid]) < 0
             THEN BinarySearch(a, pivot, left, mid)
             ELSE BinarySearch(a, pivot, mid + 1, right)

RECURSIVE BinaryInsertionSort(_, _)
BinaryInsertionSort(a, start) ==
    IF start > Len(a) THEN a
    ELSE LET pivot == a[start]
             left == BinarySearch(a, pivot, 1, start)
             moved == SubSeq(a, 1, left - 1) \o <<pivot>>
                        \o SubSeq(a, left, start - 1)
                        \o SubSeq(a, start + 1, Len(a))
         IN  BinaryInsertionSort(moved, start + 1)

TimSort(a) ==
    IF Len(a) < 2 THEN a
    ELSE LET descending == Compare(a[2], a[1]) < 0
             run == RunLength(a, descending, 3)
             made == IF descending
                     THEN Reverse(SubSeq(a, 1, run)) \o SubSeq(a, run + 1, Len(a))
                     ELSE a
         IN  BinaryInsertionSort(made, run + 1)

SortEngines == {"InsertionSort", "TimSort"}

ArraySort(a, engine) ==
    IF engine = "InsertionSort" THEN InsertionSort(a) ELSE TimSort(a)

(***************************************************************************)
(* restify.InternalError and verror.MultiError, as errResult uses them and *)
(* as the tests expect them: an Error instance handed over as the cause is *)
(* kept in we_cause (expVErrInternal), a plain object handed over in its   *)
(* place is not (expErrInternal).                                          *)
(***************************************************************************)
IsError(e) == "isError" \in DOMAIN e

MultiError(errors) ==
    [isError |-> TRUE, name |-> "MultiError", ase_errors |-> errors]

InternalError(cause, message) ==
    IF IsError(cause)
    THEN [name |-> "InternalError", statusCode |-> 500,
          message |-> message, we_cause |-> cause]
    ELSE [name |-> "InternalError", statusCode |-> 500,
          message |-> message]

(***************************************************************************)
(* lib/validate.js: errResult.  The value is the argument list of the one  *)
(* call of `callback` it makes.                                            *)
(***************************************************************************)
HasField(e) == "field" \in DOMAIN e

\* e.hasOwnProperty('code') && e.code !== 'MissingParameter'
IsInvalid(e) == "code" \in DOMAIN e /\ e.code # "MissingParameter"

RealErrs(es) == SelectSeq(es, LAMBDA e : ~HasField(e))

FieldErrs(es) == SelectSeq(es, HasField)

errResult_BothArguments(es, validated, engine) ==
    IF es # << >>
    THEN [err |-> InvalidParamsError(INVALID_PARAMS, FieldErrs(es)),
          res |-> Obj(validated)]
    ELSE [err |-> Null, res |-> Obj(validated)]

errResult_NoInvalidFlag(es, validated, engine) ==
    IF es # << >>
    THEN IF RealErrs(es) # << >>
         THEN [err |-> InternalError(
                           IF Len(RealErrs(es)) = 1 THEN RealErrs(es)[1]
                           ELSE MultiError(RealErrs(es)),
                           "Internal error"),
               res |-> Undefined]
         ELSE [err |-> InvalidParamsError("Missing parameters",
                           ArraySort(FieldErrs(es), engine)),
               res |-> Undefined]
    ELSE [err |-> Null, res |-> Obj(validated)]

errResult(es, validated, engine) ==
    IF es # << >>
    THEN LET realErrs == RealErrs(es)
             invalid == \E i \in DOMAIN es : HasField(es[i]) /\ IsInvalid(es[i])
             sortedErrs == ArraySort(FieldErrs(es), engine)
         IN  IF realErrs # << >>
             THEN [err |-> InternalError(
                               IF Len(realErrs) = 1 THEN realErrs[1]
                               ELSE MultiError(realErrs),
                               "Internal error"),
                   res |-> Undefined]
             ELSE [err |-> InvalidParamsError(
                               IF invalid THEN INVALID_PARAMS
                               ELSE "Missing parameters",
                               sortedErrs),
                   res |-> Undefined]
    ELSE [err |-> Null, res |-> Obj(validated)]

(***************************************************************************)
(* lib/validate.js: validateUnknowns.  null stands for "no unknown key".   *)
(***************************************************************************)
HasOwn(p, key) == key \in Range(p.keys)

validateUnknowns_OnlyFirst(p, req, opt) ==
    LET unknowns == SelectSeq(p.keys,
                        LAMBDA k : k \notin Range(req) /\ k \notin Range(opt))
    IN  IF unknowns = << >> THEN Null ELSE unknownParams(<<unknowns[1]>>)

validateUnknowns(p, req, opt) ==
    LET unknowns == SelectSeq(p.keys,
                        LAMBDA k : k \notin Range(req) /\ k \notin Range(opt))
    IN  IF unknowns = << >> THEN Null ELSE unknownParams(unknowns)

(***************************************************************************)
(* The schemas and the inputs of the model.                                *)
(***************************************************************************)
\* opts.after: one function, or an array of functions.  A function is named
\* by its position in the declaration.
AfterDeclarations ==
    {[arr |-> FALSE, fns |-> <<1>>]}
        \cup {[arr |-> TRUE, fns |-> [i \in 1..n |-> i]] : n \in 0..MaxAfter}

\* Every field name is declared at most once, as required or as optional;
\* `strict` and `after` are own properties of the schema or absent.
Schemas ==
    LET fields == {[required |-> r, optional |-> o] :
                      r \in SubSeqs(FieldNames),
                      o \in SubSeqs(FieldNames)}
        disjoint == {f \in fields : Range(f.required) \cap Range(f.optional) = {}}
        stricts == {<< >>} \cup {"strict" :> b : b \in BOOLEAN}
        afters == {<< >>} \cup {"after" :> a : a \in AfterDeclarations}
    IN  {f @@ s @@ a : f \in disjoint, s \in stricts, a \in afters}

\* The values handed over as params: null, undefined, a number, an array, or
\* an object with any of ParamKeys as its own keys.
Inputs ==
    {[kind |-> k, keys |-> << >>] : k \in {"null", "undefined", "number", "array"}}
        \cup {[kind |-> "object", keys |-> ks] : ks \in SubSeqs(ParamKeys)}

Falsy(p) == p.kind \in {"null", "undefined"}

TypeOf(p) ==
    CASE p.kind \in {"null", "array", "object"} -> "object"
      [] p.kind = "undefined" -> "undefined"
      [] p.kind = "number" -> "number"

IsArray(p) == p.kind = "array"

NotAnObject_ArraysPass(p) == Falsy(p) \/ TypeOf(p) # "object"

\* !params || typeof (params) !== 'object' || Array.isArray(params)
NotAnObject(p) == Falsy(p) \/ TypeOf(p) # "object" \/ IsArray(p)

\* if (opts.strict)
Strict(o) == "strict" \in DOMAIN o /\ o.strict

(***************************************************************************)
(* What a field validator may hand to its callback (e, validated, multi)   *)
(* and what an after function may hand to its callback (err).              *)
(***************************************************************************)
Validated(field) == [t |-> "validated", key |-> field]
Injected(field) == [t |-> "injected", by |-> field]

Outcome(e, validated, multi) == [e |-> e, validated |-> validated, multi |-> multi]

PlainObjectError == [my_err_obj |-> 42]
ErrorInstance == [isError |-> TRUE, name |-> "Error"]

FieldOutcomes(field) ==
    {Outcome(Null, Validated(field), Undefined),
     Outcome(Null, Null,
             Obj((field :> RawVal(field)) @@ (InjectedKey :> Injected(field)))),
     Outcome(Null, Undefined, Obj(InjectedKey :> Injected(field))),
     Outcome(Null, Undefined, Undefined),
     Outcome(Null, Null, Obj(InjectedKey :> Injected(field))),
     Outcome(Null, Null, Undefined),
     Outcome(invalidParam(field, "invalid"), Undefined, Undefined),
     Outcome(invalidParam(field, "invalid"), Validated(field), Undefined),
     Outcome(invalidParam(field, "invalid"), Undefined,
             Obj(InjectedKey :> Injected(field))),
     Outcome([field |-> Str(field), message |-> Msg("custom")], Undefined, Undefined),
     Outcome(PlainObjectError, Undefined, Undefined),
     Outcome(ErrorInstance, Undefined, Undefined)}

JsArray(items) == [t |-> "array", items |-> items]

AfterOutcomes(fn) ==
    {Undefined,
     invalidParam("ip", "after") @@ ("fn" :> fn),
     PlainObjectError,
     ErrorInstance,
     JsArray(<< >>),
     JsArray(<<PlainObjectError, [meo |-> 43]>>),
     JsArray(<<invalidParam("name", "after"),
               [field |-> Str("ip"), message |-> Msg("after")]>>)}

Truthy(v) == v # Undefined /\ v # Null

ArrayIsArray(v) == "t" \in DOMAIN v /\ v.t = "array"

(***************************************************************************)
(* lib/validate.js: validateParams, the loops that build toValidate and    *)
(* record the missing required fields.                                     *)
(***************************************************************************)
Task(o, p, decl, field) == [field |-> field, fn |-> <<decl, field>>, val |-> RawVal(field)]

Tasks_NoPresenceCheck(o, p) ==
    [i \in 1..Len(o.required) |-> Task(o, p, "required", o.required[i])]
    \o
    [i \in 1..Len(SelectSeq(o.optional, LAMBDA f : HasOwn(p, f))) |->
        Task(o, p, "optional", SelectSeq(o.optional, LAMBDA f : HasOwn(p, f))[i])]

Tasks(o, p) ==
    [i \in 1..Len(SelectSeq(o.required, LAMBDA f : HasOwn(p, f))) |->
        Task(o, p, "required", SelectSeq(o.required, LAMBDA f : HasOwn(p, f))[i])]
    \o
    [i \in 1..Len(SelectSeq(o.optional, LAMBDA f : HasOwn(p, f))) |->
        Task(o, p, "optional", SelectSeq(o.optional, LAMBDA f : HasOwn(p, f))[i])]

MissingErrs(o, p) ==
    LET absent == SelectSeq(o.required, LAMBDA f : ~HasOwn(p, f))
    IN  [i \in 1..Len(absent) |-> missingParam(absent[i])]

(***************************************************************************)
(* lib/validate.js: the callback _callValidateFn hands to a validator.     *)
(* The values are the error list and the result mapping it leaves.         *)
(***************************************************************************)
PushErr_Dropped(es, task, o) == es

PushErr_ClearedBySuccess(es, task, o) ==
    IF Truthy(o.e) THEN Append(es, o.e) ELSE << >>

PushErr(es, task, o) == IF Truthy(o.e) THEN Append(es, o.e) ELSE es

SetValidated_CopiesInput(validated, task, o) ==
    LET own == IF o.validated # Undefined
               THEN (task.field :> o.validated) @@ validated
               ELSE validated
        copied == [k \in Range(params.keys) |-> RawVal(k)]
    IN  IF o.multi # Undefined /\ o.multi.t = "object"
        THEN o.multi.map @@ own @@ copied
        ELSE own @@ copied

SetValidated_AlwaysOwn(validated, task, o) ==
    LET own == (task.field :> o.validated) @@ validated
    IN  IF o.multi # Undefined /\ o.multi.t = "object"
        THEN o.multi.map @@ own
        ELSE own

SetValidated_NoMulti(validated, task, o) ==
    IF o.validated # Undefined
    THEN (task.field :> o.validated) @@ validated
    ELSE validated

SetValidated(validated, task, o) ==
    LET own == IF o.validated # Undefined
               THEN (task.field :> o.validated) @@ validated
               ELSE validated
    IN  IF o.multi # Undefined /\ o.multi.t = "object"
        THEN o.multi.map @@ own
        ELSE own

(***************************************************************************)
(* lib/validate.js: crossValidate's callback for an after function.        *)
(***************************************************************************)
ConcatErr_NoFlatten(es, err) == IF Truthy(err) THEN Append(es, err) ELSE es

ConcatErr(es, err) ==
    IF Truthy(err)
    THEN IF ArrayIsArray(err) THEN es \o err.items ELSE Append(es, err)
    ELSE es

(***************************************************************************)
(* The pass.                                                               *)
(***************************************************************************)
\* The schema's validators are not stock validators.

Init ==
    /\ opts \in Schemas
    /\ params \in Inputs
    /\ pc = "start"
    /\ toValidate = << >>
    /\ pending = {}
    /\ errs = << >>
    /\ validatedParams = EmptyMap
    /\ afterPending = 0
    /\ callbacks = << >>
    /\ invoked = << >>
    /\ afterInvoked = << >>
    /\ outcomes = << >>
    /\ afterOutcomes = << >>
    /\ phases = << >>
    /\ stock = [fn |-> "none"]
    /\ other = [pc |-> "none"]

\* errResult(errs, validated, callback): the pass ends with one call of the
\* caller's callback.
Finish(es, validated, ph) ==
    \E engine \in SortEngines :
        /\ callbacks' = Append(callbacks, errResult(es, validated, engine))
        /\ errs' = es
        /\ validatedParams' = validated
        /\ pc' = "done"
        /\ afterPending' = 0
        /\ phases' = Append(ph, "aggregate")

AfterCall_FreshMapping(fn, validated) ==
    [fn |-> fn, raw |-> params, validated |-> Obj(EmptyMap)]

\* func(arg, raw, validated, function (err) ...): the invocation of an after
\* function.
AfterCall(fn, validated) == [fn |-> fn, raw |-> params, validated |-> Obj(validated)]

PipelineGoesOn_StopsOnError(i, afterFuncs, es) == i < Len(afterFuncs) /\ es = << >>

\* forEachPipeline after the i-th function's cb(): _validate calls cb with
\* no error, so the pipeline goes on while a function is left.
PipelineGoesOn(i, afterFuncs, es) == i < Len(afterFuncs)

crossValidate_WaitsWhenEmpty(es, validated, afterFuncs, ph) ==
    /\ afterInvoked' = IF afterFuncs = << >> THEN afterInvoked
                       ELSE Append(afterInvoked, AfterCall(afterFuncs[1], validated))
    /\ afterPending' = IF afterFuncs = << >> THEN 0 ELSE 1
    /\ errs' = es
    /\ validatedParams' = validated
    /\ pc' = "cross"
    /\ callbacks' = callbacks
    /\ phases' = Append(ph, "cross")

\* crossValidate(errs, arg, params, validatedParams, opts.after, callback):
\* the pipeline invokes the first after function, or ends at once when
\* there is none.
crossValidate(es, validated, afterFuncs, ph) ==
    IF afterFuncs = << >>
    THEN /\ Finish(es, validated, Append(ph, "cross"))
         /\ afterInvoked' = afterInvoked
    ELSE /\ afterInvoked' = Append(afterInvoked, AfterCall(afterFuncs[1], validated))
         /\ afterPending' = 1
         /\ errs' = es
         /\ validatedParams' = validated
         /\ pc' = "cross"
         /\ callbacks' = callbacks
         /\ phases' = Append(ph, "cross")

\* The unknown-field check of `after`.
WithUnknowns(es) ==
    IF Strict(opts)
    THEN LET err == validateUnknowns(params, opts.required, opts.optional)
         IN  IF err # Null THEN Append(es, err) ELSE es
    ELSE es

EntersCross_Always(es) == "after" \in DOMAIN opts

\* opts.hasOwnProperty('after') && errs.length === 0
EntersCross(es) == "after" \in DOMAIN opts /\ es = << >>

\* function after(): what forEachParallel calls once every task is done.
after(es0, validated, ph) ==
    LET es == WithUnknowns(es0)
    IN  IF EntersCross(es)
        THEN LET wrapped == IF ~opts.after.arr
                            THEN [opts EXCEPT !.after = [arr |-> TRUE, fns |-> opts.after.fns]]
                            ELSE opts
             IN  /\ opts' = wrapped
                 /\ crossValidate(es, validated, wrapped.after.fns, Append(ph, "unknown"))
        ELSE /\ opts' = opts
             /\ afterInvoked' = afterInvoked
             /\ Finish(es, validated, Append(ph, "unknown"))

\* validateParams(opts, arg, params, callback), up to the dispatch of the
\* validators by forEachParallel; with no task, forEachParallel goes on to
\* `after`.
validateParams ==
    /\ pc = "start"
    /\ IF NotAnObject(params)
       THEN /\ Finish(<<invalidParam("parameters", PARAMETERS_ARE_OBJECTS)>>,
                      EmptyMap, <<"structural">>)
            /\ UNCHANGED <<opts, toValidate, pending, invoked, afterInvoked>>
       ELSE LET tasks == Tasks(opts, params)
                missing == MissingErrs(opts, params)
            IN  /\ toValidate' = tasks
                /\ pending' = DOMAIN tasks
                /\ invoked' = [i \in DOMAIN tasks |->
                                  [fn |-> tasks[i].fn, field |-> tasks[i].field,
                                   val |-> tasks[i].val]]
                /\ IF tasks = << >>
                   THEN after(missing, EmptyMap, <<"structural", "fields">>)
                   ELSE /\ errs' = missing
                        /\ pc' = "fields"
                        /\ phases' = <<"structural", "fields">>
                        /\ UNCHANGED <<opts, validatedParams, afterPending,
                                       callbacks, afterInvoked>>
    /\ UNCHANGED <<params, outcomes, afterOutcomes, stock, other>>

ValidatorCallback_WritesInput(i) ==
    /\ pc = "fields"
    /\ i \in pending
    /\ pending' = pending \ {i}
    /\ params' = [params EXCEPT !.keys = Append(@, InjectedKey)]
    /\ UNCHANGED <<opts, pc, toValidate, errs, validatedParams, afterPending,
                   callbacks, invoked, afterInvoked, outcomes, afterOutcomes,
                   phases, stock, other>>

Deliver_EndsOnError(i, o) ==
    LET es == PushErr(errs, toValidate[i], o)
        validated == SetValidated(validatedParams, toValidate[i], o)
    IN  /\ outcomes' = (i :> o) @@ outcomes
        /\ pending' = pending \ {i}
        /\ IF pending \ {i} = {} \/ es # << >>
           THEN after(es, validated, phases)
           ELSE /\ errs' = es
                /\ validatedParams' = validated
                /\ UNCHANGED <<opts, pc, afterPending, callbacks,
                               afterInvoked, phases>>

\* function (e, validated, multi) of _callValidateFn for task i, then cb();
\* the last task to finish runs `after`.
Deliver(i, o) ==
    LET es == PushErr(errs, toValidate[i], o)
        validated == SetValidated(validatedParams, toValidate[i], o)
    IN  /\ outcomes' = (i :> o) @@ outcomes
        /\ pending' = pending \ {i}
        /\ IF pending \ {i} = {}
           THEN after(es, validated, phases)
           ELSE /\ errs' = es
                /\ validatedParams' = validated
                /\ UNCHANGED <<opts, pc, afterPending, callbacks,
                               afterInvoked, phases>>

ValidatorCallback_InSeries(i) ==
    /\ pc = "fields"
    /\ i \in pending
    /\ \A j \in pending : i <= j
    /\ \E o \in FieldOutcomes(toValidate[i].field) : Deliver(i, o)
    /\ UNCHANGED <<params, toValidate, invoked, afterOutcomes, stock, other>>

\* A validator calls back.
ValidatorCallback(i) ==
    /\ pc = "fields"
    /\ i \in pending
    /\ \E o \in FieldOutcomes(toValidate[i].field) : Deliver(i, o)
    /\ UNCHANGED <<params, toValidate, invoked, afterOutcomes, stock, other>>

\* An after function calls back: function (err) of _validate, then cb();
\* the pipeline invokes the next after function or ends.
AfterCallback ==
    /\ pc = "cross"
    /\ afterPending \in DOMAIN opts.after.fns
    /\ \E o \in AfterOutcomes(opts.after.fns[afterPending]) :
        LET es == ConcatErr(errs, o)
        IN  /\ afterOutcomes' = Append(afterOutcomes, o)
            /\ IF PipelineGoesOn(afterPending, opts.after.fns, es)
               THEN /\ afterInvoked' = Append(afterInvoked,
                           AfterCall(opts.after.fns[afterPending + 1], validatedParams))
                    /\ afterPending' = afterPending + 1
                    /\ errs' = es
                    /\ UNCHANGED <<validatedParams, pc, callbacks, phases>>
               ELSE /\ Finish(es, validatedParams, phases)
                    /\ afterInvoked' = afterInvoked
    /\ UNCHANGED <<opts, params, toValidate, pending, invoked, outcomes, stock, other>>

Next ==
    \/ validateParams
    \/ \E i \in DOMAIN toValidate : ValidatorCallback(i)
    \/ AfterCallback

Spec == Init /\ [][Next]_vars

(***************************************************************************)
(* Definitions the properties share.                                       *)
(***************************************************************************)
Count(seq, e) == Cardinality({i \in DOMAIN seq : seq[i] = e})

\* e.code === code
CodeIs(e, code) == "code" \in DOMAIN e /\ e.code = code

Declared == Range(opts.required) \cup Range(opts.optional)

UnknownKeys == {k \in Range(params.keys) : k \notin Declared}

\* The call of the caller's callback carries an error / carries a result.
HasErr(call) == Truthy(call.err)
HasRes(call) == Truthy(call.res)

IsFieldFailure(call) == HasErr(call) /\ call.err.name = "InvalidParamsError"
IsInternalFailure(call) == HasErr(call) /\ call.err.name = "InternalError"

\* C1: validateParams invokes the caller's callback exactly once, namely
\* when no invoked field validator and no invoked after function is still
\* to call back, and never before; the invocation carries either an error
\* and no result or a result and no error.
C1_ExactlyOneOutcome ==
    /\ Len(callbacks) <= 1
    /\ Len(callbacks) = 1 <=> (pc # "start" /\ pending = {} /\ afterPending = 0)
    /\ Len(callbacks) = 1 <=> pc = "done"
    /\ \A i \in DOMAIN callbacks : HasErr(callbacks[i]) # HasRes(callbacks[i])

C1_Witness ==
    /\ pc = "done"
    /\ Len(toValidate) = 2
    /\ Len(afterOutcomes) = 2
    /\ Len(callbacks) = 1
    /\ ~HasErr(callbacks[1])
    /\ HasRes(callbacks[1])

\* C2: when params is null, not an object, or an array, the pass ends at
\* once with the single error invalidParam('parameters',
\* PARAMETERS_ARE_OBJECTS) under the message 'Invalid parameters'; no field
\* validator and no after function is invoked and no other error is
\* recorded, whatever the schema declares.
C2_StructuralExclusive ==
    (params.kind # "object" /\ pc # "start") =>
        /\ pc = "done"
        /\ callbacks =
              <<[err |-> InvalidParamsError(INVALID_PARAMS,
                            <<invalidParam("parameters", PARAMETERS_ARE_OBJECTS)>>),
                 res |-> Undefined]>>
        /\ errs = <<invalidParam("parameters", PARAMETERS_ARE_OBJECTS)>>
        /\ invoked = << >>
        /\ afterInvoked = << >>
        /\ toValidate = << >>

C2_Witness ==
    /\ pc = "done"
    /\ params.kind = "array"
    /\ opts.required # << >>
    /\ Strict(opts)
    /\ "after" \in DOMAIN opts
    /\ Len(callbacks) = 1

\* C3: for an input object, once validateParams has dispatched: every
\* required field that is not an own key of the input has exactly one
\* MissingParameter error naming it in the error list and no validator
\* invocation; every optional field that is not an own key has no
\* MissingParameter error and no validator invocation; every declared
\* field that is an own key has exactly one validator invocation, of its
\* declared validator with the raw value input[field].
C3_MissingAndTasks ==
    (params.kind = "object" /\ pc # "start") =>
        /\ \A f \in Range(opts.required) :
              f \notin Range(params.keys) =>
                  /\ Count(errs, missingParam(f)) = 1
                  /\ \A i \in DOMAIN errs :
                        (HasField(errs[i]) /\ "code" \in DOMAIN errs[i]
                            /\ errs[i].code = "MissingParameter"
                            /\ errs[i].field = Str(f))
                        => errs[i] = missingParam(f)
                  /\ \A i \in DOMAIN invoked : invoked[i].field # f
        /\ \A f \in Range(opts.optional) :
              f \notin Range(params.keys) =>
                  /\ \A i \in DOMAIN errs :
                        ~(HasField(errs[i]) /\ "code" \in DOMAIN errs[i]
                            /\ errs[i].code = "MissingParameter"
                            /\ errs[i].field = Str(f))
                  /\ \A i \in DOMAIN invoked : invoked[i].field # f
        /\ \A f \in Declared :
              f \in Range(params.keys) =>
                  /\ Cardinality({i \in DOMAIN invoked : invoked[i].field = f}) = 1
                  /\ \A i \in DOMAIN invoked :
                        invoked[i].field = f =>
                            /\ invoked[i].val = RawVal(f)
                            /\ invoked[i].fn =
                                  <<IF f \in Range(opts.required)
                                    THEN "required" ELSE "optional", f>>
        /\ \A i \in DOMAIN invoked : invoked[i].field \in Declared

C3_Witness ==
    /\ pc = "done"
    /\ params.kind = "object"
    /\ \E f \in Range(opts.required) : f \notin Range(params.keys)
    /\ \E f \in Range(opts.optional) : f \in Range(params.keys)
    /\ Len(invoked) = 1
    /\ Len(errs) >= 2

\* C4: for an input object, once every field validator has called back
\* the error list holds exactly one UnknownParameters error if the schema
\* is strict and the input owns a key declared neither as required nor as
\* optional, and that error lists every such key once; otherwise, and in
\* every state before that, and always when strict is false or absent, it
\* holds none.
UnknownErrs == SelectSeq(errs, LAMBDA e : "code" \in DOMAIN e /\ e.code = "UnknownParameters")

C4_UnknownParameters ==
    /\ (pc \in {"start", "fields"} \/ params.kind # "object" \/ ~Strict(opts)
            \/ UnknownKeys = {})
          => UnknownErrs = << >>
    /\ (pc \in {"cross", "done"} /\ params.kind = "object" /\ Strict(opts)
            /\ UnknownKeys # {})
          => /\ Len(UnknownErrs) = 1
             /\ UnknownErrs[1].field.arr
             /\ Range(UnknownErrs[1].field.names) = UnknownKeys
             /\ Len(UnknownErrs[1].field.names) = Cardinality(UnknownKeys)
             /\ UnknownErrs[1].message =
                   [text |-> UNKNOWN_PARAMS, list |-> UnknownErrs[1].field.names]

C4_Witness ==
    /\ pc = "done"
    /\ Strict(opts)
    /\ Cardinality(UnknownKeys) = 2
    /\ Len(UnknownErrs) = 1
    /\ \E i \in DOMAIN errs :
          "code" \in DOMAIN errs[i] /\ errs[i].code = "InvalidParameter"

(***************************************************************************)
(* What the pass has accumulated, told from the inputs and from what the   *)
(* validators and after functions reported (not from the variable errs).   *)
(***************************************************************************)
RECURSIVE Flatten(_)
Flatten(reported) ==
    IF reported = << >> THEN << >>
    ELSE ConcatErr(Flatten(SubSeq(reported, 1, Len(reported) - 1)),
                   reported[Len(reported)])

\* How often error e has been reported to the pass or recorded by it.
Accumulated(e) ==
    Count(MissingErrs(opts, params), e)
    + Cardinality({i \in DOMAIN outcomes : outcomes[i].e = e})
    + (IF Strict(opts) /\ pending = {} /\ pc # "start"
          /\ validateUnknowns(params, opts.required, opts.optional) = e
       THEN 1 ELSE 0)
    + Count(Flatten(afterOutcomes), e)

\* The field stage (missing fields, validators, unknown keys) left no error.
FieldStageClean ==
    /\ MissingErrs(opts, params) = << >>
    /\ \A i \in DOMAIN outcomes : ~Truthy(outcomes[i].e)
    /\ Strict(opts) => UnknownKeys = {}

OnlyFieldErrors == errs # << >> /\ \A i \in DOMAIN errs : HasField(errs[i])

\* C5 as claimed: for a list of field errors only, the failure message is
\* 'Missing parameters' if every error's code is exactly MissingParameter
\* and 'Invalid parameters' if any error's code is not MissingParameter.
C5_Classification_Claimed ==
    (pc = "done" /\ OnlyFieldErrors) =>
        /\ IsFieldFailure(callbacks[1])
        /\ callbacks[1].err.message =
              IF \A i \in DOMAIN errs :
                    "code" \in DOMAIN errs[i] /\ errs[i].code = "MissingParameter"
              THEN "Missing parameters"
              ELSE INVALID_PARAMS

\* C5, amended: for a list of field errors only, the failure message is
\* 'Invalid parameters' if some error has a `code` property of its own
\* whose value is not MissingParameter, also when mixed with
\* MissingParameter errors; otherwise (every error has the code
\* MissingParameter or no code at all) it is 'Missing parameters'.
C5_Classification ==
    (pc = "done" /\ OnlyFieldErrors) =>
        /\ IsFieldFailure(callbacks[1])
        /\ callbacks[1].err.message =
              IF \E i \in DOMAIN errs :
                    "code" \in DOMAIN errs[i] /\ errs[i].code # "MissingParameter"
              THEN INVALID_PARAMS
              ELSE "Missing parameters"

C5_Witness ==
    /\ pc = "done"
    /\ Len(errs) = 2
    /\ \E i \in DOMAIN errs :
          HasField(errs[i]) /\ "code" \in DOMAIN errs[i]
              /\ errs[i].code = "MissingParameter"
    /\ \E i \in DOMAIN errs :
          HasField(errs[i]) /\ "code" \in DOMAIN errs[i]
              /\ errs[i].code = "UnknownParameters"
    /\ IsFieldFailure(callbacks[1])
    /\ callbacks[1].err.message = INVALID_PARAMS

\* C6 as claimed: if the error list holds an error without `field`, the
\* outcome is an internal failure that carries no field error; with
\* exactly one such error it wraps that error, with two or more it wraps a
\* multi-error holding all of them.
C6_InternalFailure_Claimed ==
    (pc = "done" /\ RealErrs(errs) # << >>) =>
        /\ IsInternalFailure(callbacks[1])
        /\ "errors" \notin DOMAIN callbacks[1].err
        /\ "we_cause" \in DOMAIN callbacks[1].err
        /\ callbacks[1].err.we_cause =
              IF Len(RealErrs(errs)) = 1 THEN RealErrs(errs)[1]
              ELSE MultiError(RealErrs(errs))

\* C7: a field failure carries every accumulated field error exactly as
\* often as it was recorded (none dropped, none duplicated), ordered
\* ascending by `field`: no element's field is greater than its
\* successor's.
C7_SortedComplete ==
    (pc = "done" /\ IsFieldFailure(callbacks[1])) =>
        LET out == callbacks[1].err.errors
        IN  /\ Len(out) = Len(errs)
            /\ \A i \in DOMAIN out : Count(out, out[i]) = Count(errs, out[i])
            /\ params.kind = "object" =>
                  \A i \in DOMAIN out : Count(out, out[i]) = Accumulated(out[i])
            /\ \A i \in DOMAIN errs : Count(out, errs[i]) > 0
            /\ \A i \in 1..(Len(out) - 1) :
                  ~FieldGreater(out[i].field, out[i + 1].field)

C7_Witness ==
    /\ pc = "done"
    /\ IsFieldFailure(callbacks[1])
    /\ Len(errs) = 3
    /\ callbacks[1].err.errors # errs
    /\ \E i \in DOMAIN errs : CodeIs(errs[i], "MissingParameter")
    /\ \E i \in DOMAIN errs : CodeIs(errs[i], "InvalidParameter")
    /\ \E i \in DOMAIN errs : CodeIs(errs[i], "UnknownParameters")

(***************************************************************************)
(* The pass replayed with its validators calling back in dispatch order:   *)
(* the error list and the result mapping after the first n tasks, and the  *)
(* outcome errResult then builds.                                          *)
(***************************************************************************)
RECURSIVE InOrderErrs(_)
InOrderErrs(n) ==
    IF n = 0 THEN MissingErrs(opts, params)
    ELSE PushErr(InOrderErrs(n - 1), toValidate[n], outcomes[n])

RECURSIVE InOrderValidated(_)
InOrderValidated(n) ==
    IF n = 0 THEN EmptyMap
    ELSE SetValidated(InOrderValidated(n - 1), toValidate[n], outcomes[n])

InOrderCalls ==
    LET es == WithUnknowns(InOrderErrs(Len(toValidate)))
        all == IF EntersCross(es) THEN es \o Flatten(afterOutcomes) ELSE es
    IN  {errResult(all, InOrderValidated(Len(toValidate)), engine) :
            engine \in SortEngines}

\* C8 as claimed: for a fixed schema, input and fixed outcomes of the
\* validators and after functions, the outcome handed to the callback is
\* the one the pass hands over when the validators call back in dispatch
\* order, whatever order they called back in.
C8_OrderIndependent_Claimed ==
    (pc = "done" /\ params.kind = "object") => callbacks[1] \in InOrderCalls

PhaseRank(phase) ==
    CASE phase = "structural" -> 1
      [] phase = "fields" -> 2
      [] phase = "unknown" -> 3
      [] phase = "cross" -> 4
      [] phase = "aggregate" -> 5

\* C9: after functions are invoked only if the schema has an `after`
\* property and the field stage (missing fields, validators, unknown keys)
\* left no error, and then every one of them is; otherwise none is invoked
\* and the outcome is built from the field stage's errors alone.  The
\* phases of a pass occur in the order structural check, field validation,
\* unknown check, cross validation, aggregation, each at most once.
C9_AfterStageGate ==
    /\ (afterInvoked # << >> \/ pc = "cross") =>
          /\ "after" \in DOMAIN opts
          /\ params.kind = "object"
          /\ pending = {}
          /\ FieldStageClean
          /\ afterInvoked # << >>
    /\ (pc = "done" /\ params.kind = "object" /\ "after" \in DOMAIN opts
            /\ FieldStageClean) =>
          /\ Len(afterInvoked) = Len(opts.after.fns)
          /\ \A i \in DOMAIN afterInvoked : afterInvoked[i].fn = opts.after.fns[i]
          /\ "cross" \in Range(phases)
    /\ (pc = "done" /\ params.kind = "object"
            /\ ~("after" \in DOMAIN opts /\ FieldStageClean)) =>
          /\ afterInvoked = << >>
          /\ afterOutcomes = << >>
          /\ "cross" \notin Range(phases)
          /\ Len(errs) =
                Len(MissingErrs(opts, params))
                + Cardinality({i \in DOMAIN outcomes : Truthy(outcomes[i].e)})
                + (IF Strict(opts) /\ UnknownKeys # {} THEN 1 ELSE 0)
          /\ \A i \in DOMAIN errs : Count(errs, errs[i]) = Accumulated(errs[i])
          /\ \E engine \in SortEngines :
                callbacks[1] = errResult(errs, validatedParams, engine)
    /\ \A i, j \in DOMAIN phases :
          i < j => PhaseRank(phases[i]) < PhaseRank(phases[j])
    /\ pc # "start" => phases[1] = "structural"
    /\ pc = "fields" => phases = <<"structural", "fields">>
    /\ pc = "cross" => phases = <<"structural", "fields", "unknown", "cross">>
    /\ pc = "done" =>
          /\ phases[Len(phases)] = "aggregate"
          /\ params.kind = "object" =>
                SubSeq(phases, 1, 3) = <<"structural", "fields", "unknown">>

C9_Witness ==
    /\ pc = "done"
    /\ "after" \in DOMAIN opts
    /\ Len(opts.after.fns) = 2
    /\ Len(toValidate) = 2
    /\ ~FieldStageClean
    /\ afterInvoked = << >>
    /\ HasErr(callbacks[1])

\* Every key a validator handed over in a multi mapping.
MultiKeys ==
    UNION {DOMAIN outcomes[i].multi.map :
              i \in {j \in DOMAIN outcomes : outcomes[j].multi.t = "object"}}

\* C10 as claimed: if every required field is present and its validator
\* succeeds, every provided optional field's validator succeeds and (when
\* strict) the input has no undeclared key, the call succeeds and the
\* result contains every declared field that was present and every key
\* injected through a multi mapping.
C10_Success_Claimed ==
    (pc = "done" /\ params.kind = "object" /\ FieldStageClean) =>
        /\ ~HasErr(callbacks[1])
        /\ HasRes(callbacks[1])
        /\ \A i \in DOMAIN toValidate :
              toValidate[i].field \in DOMAIN callbacks[1].res.map
        /\ MultiKeys \subseteq DOMAIN callbacks[1].res.map

\* C10, amended: if moreover no after function reports an error, the call
\* succeeds and the result contains every declared field that was present
\* and whose validator handed over a value, and every key injected through
\* a multi mapping.
C10_Success ==
    (pc = "done" /\ params.kind = "object" /\ FieldStageClean
        /\ Flatten(afterOutcomes) = << >>) =>
        /\ ~HasErr(callbacks[1])
        /\ HasRes(callbacks[1])
        /\ \A i \in DOMAIN toValidate :
              outcomes[i].validated # Undefined =>
                  toValidate[i].field \in DOMAIN callbacks[1].res.map
        /\ MultiKeys \subseteq DOMAIN callbacks[1].res.map

C10_Witness ==
    /\ pc = "done"
    /\ Strict(opts)
    /\ Len(opts.required) = 1
    /\ Len(opts.optional) = 1
    /\ Len(toValidate) = 2
    /\ Len(afterOutcomes) = 2
    /\ FieldStageClean
    /\ ~HasErr(callbacks[1])
    /\ InjectedKey \in DOMAIN callbacks[1].res.map
    /\ \E i \in DOMAIN toValidate :
          toValidate[i].field \notin DOMAIN callbacks[1].res.map

(***************************************************************************)
(* The step in which the validator of task i calls back, and what it       *)
(* reports.                                                                *)
(***************************************************************************)
CallsBack(i) == i \notin DOMAIN outcomes /\ i \in DOMAIN outcomes'

IsMapping(v) == v # Undefined /\ v.t = "object"

\* The validator of task i reported no error.
Passed(i) == i \in DOMAIN outcomes /\ ~Truthy(outcomes[i].e)

\* C11: on success every key of the result is a declared field that was an
\* own key of the input and whose validator reported no error, or a key of
\* some validator's multi mapping; an own key of the input that the schema
\* does not declare is not in the result, and no value of the result is the
\* raw value of such a key.
C11_ResultKeys ==
    (pc = "done" /\ HasRes(callbacks[1])) =>
        LET res == callbacks[1].res.map
        IN  /\ \A k \in DOMAIN res :
                  \/ /\ k \in Declared
                     /\ k \in Range(params.keys)
                     /\ \E i \in DOMAIN toValidate :
                           toValidate[i].field = k /\ Passed(i)
                  \/ k \in MultiKeys
            /\ \A k \in UnknownKeys :
                  /\ k \notin DOMAIN res
                  /\ \A j \in DOMAIN res : res[j] # RawVal(k)

C11_Witness ==
    /\ pc = "done"
    /\ HasRes(callbacks[1])
    /\ ~Strict(opts)
    /\ Cardinality(UnknownKeys) = 2
    /\ Cardinality(DOMAIN callbacks[1].res.map) = 2
    /\ InjectedKey \in DOMAIN callbacks[1].res.map

\* C12 as claimed: in the step in which a validator reports no error, no
\* value (null or undefined) and a multi mapping, the result mapping
\* receives exactly the keys of the multi mapping with the values of that
\* mapping, every other key staying as it was: the validated field itself
\* is written only if it is a key of the multi mapping.
C12_MultiOnly_Claimed ==
    [][\A i \in DOMAIN toValidate :
          (CallsBack(i) /\ ~Truthy(outcomes'[i].e)
              /\ outcomes'[i].validated \in {Null, Undefined}
              /\ IsMapping(outcomes'[i].multi))
          => validatedParams' = outcomes'[i].multi.map @@ validatedParams]_vars

C14_ErrorPrecedence_Claimed ==
    [][\A i \in DOMAIN toValidate :
          (CallsBack(i) /\ Truthy(outcomes'[i].e))
          => /\ SubSeq(errs', 1, Len(errs) + 1) = Append(errs, outcomes'[i].e)
             /\ validatedParams' = validatedParams]_vars

\* C14, amended: in the step in which a validator reports an error, the
\* error is appended to the error list; a value or a multi mapping handed
\* over with the error is still written to the pass's result mapping, but
\* that mapping is then handed to nobody: no after function is invoked and
\* the call ends in a failure that carries no result.
C14_ErrorPrecedence ==
    /\ [][\A i \in DOMAIN toValidate :
             (CallsBack(i) /\ Truthy(outcomes'[i].e))
             => /\ SubSeq(errs', 1, Len(errs) + 1) = Append(errs, outcomes'[i].e)
                /\ outcomes'[i].validated # Undefined =>
                      /\ toValidate[i].field \in DOMAIN validatedParams'
                      /\ validatedParams'[toValidate[i].field] = outcomes'[i].validated
                /\ IsMapping(outcomes'[i].multi) =>
                      \A k \in DOMAIN outcomes'[i].multi.map :
                         /\ k \in DOMAIN validatedParams'
                         /\ validatedParams'[k] = outcomes'[i].multi.map[k]]_vars
    /\ []((\E i \in DOMAIN outcomes : Truthy(outcomes[i].e)) =>
             /\ errs # << >>
             /\ afterInvoked = << >>
             /\ pc = "done" => (HasErr(callbacks[1]) /\ ~HasRes(callbacks[1])))

C14_Witness ==
    /\ pc = "done"
    /\ Len(toValidate) = 2
    /\ "after" \in DOMAIN opts
    /\ outcomes[1].e = invalidParam(toValidate[1].field, "invalid")
    /\ outcomes[1].validated = Validated(toValidate[1].field)
    /\ ~Truthy(outcomes[2].e)
    /\ toValidate[1].field \in DOMAIN validatedParams
    /\ IsFieldFailure(callbacks[1])

\* C15: once the after stage has started, the after functions invoked so
\* far are the first declared ones, each once; an after function is invoked
\* as soon as its predecessor has called back, whatever the predecessor
\* reported, and when the pass ends every declared after function has been
\* invoked exactly once and has called back.
C15_AllAfterRun ==
    ("cross" \in Range(phases)) =>
        /\ Len(afterInvoked) <= Len(opts.after.fns)
        /\ \A i \in DOMAIN afterInvoked :
              /\ afterInvoked[i].fn = opts.after.fns[i]
              /\ Cardinality({j \in DOMAIN afterInvoked :
                                 afterInvoked[j].fn = opts.after.fns[i]}) = 1
        /\ pc = "cross" => Len(afterInvoked) = Len(afterOutcomes) + 1
        /\ pc = "done" =>
              /\ Len(afterInvoked) = Len(opts.after.fns)
              /\ Len(afterOutcomes) = Len(opts.after.fns)

C15_Witness ==
    /\ pc = "done"
    /\ "after" \in DOMAIN opts
    /\ Len(opts.after.fns) = 2
    /\ Len(afterOutcomes) = 2
    /\ afterOutcomes[1] = ErrorInstance
    /\ afterOutcomes[2] = Undefined
    /\ Len(afterInvoked) = 2
    /\ IsInternalFailure(callbacks[1])

\* C16: the after functions are invoked in declared order, one at a time:
\* at most one has been invoked and has not called back, and the i-th is
\* invoked only once the first i - 1 have called back.  Each invocation
\* receives the raw input and the result mapping the field validators
\* left, none of which is still pending.
C16_AfterSequential ==
    /\ Len(afterInvoked) <= Len(afterOutcomes) + 1
    /\ afterPending # 0 =>
          /\ pc = "cross"
          /\ afterPending = Len(afterInvoked)
          /\ Len(afterOutcomes) = afterPending - 1
    /\ afterInvoked # << >> =>
          /\ pending = {}
          /\ DOMAIN outcomes = DOMAIN toValidate
    /\ \A i \in DOMAIN afterInvoked :
          /\ afterInvoked[i].fn = opts.after.fns[i]
          /\ afterInvoked[i].raw = params
          /\ afterInvoked[i].validated = Obj(validatedParams)
          /\ MultiKeys \subseteq DOMAIN afterInvoked[i].validated.map
          /\ \A j \in DOMAIN toValidate :
                outcomes[j].validated # Undefined =>
                    toValidate[j].field \in DOMAIN afterInvoked[i].validated.map

C16_Witness ==
    /\ pc = "cross"
    /\ afterPending = 2
    /\ Len(toValidate) = 2
    /\ Len(afterOutcomes) = 1
    /\ Truthy(afterOutcomes[1])
    /\ Cardinality(DOMAIN validatedParams) = 3

\* What a sequence of after functions' reports amounts to: nothing for a
\* report of nothing, the elements for a reported sequence, the error
\* itself for a reported error object.
RECURSIVE ReportedErrors(_)
ReportedErrors(reported) ==
    IF reported = << >> THEN << >>
    ELSE LET first == Head(reported)
             entries == IF first = Undefined \/ first = Null THEN << >>
                        ELSE IF "items" \in DOMAIN first THEN first.items
                        ELSE <<first>>
         IN  entries \o ReportedErrors(Tail(reported))

\* C17: when the after stage has run, the errors handed to errResult are,
\* in declared order of the after functions, each reported error object as
\* one entry and each reported sequence as one entry per element; a report
\* of nothing adds no entry and no reported error is lost.
C17_AfterErrorsFlattened ==
    ("cross" \in Range(phases)) =>
        /\ errs = ReportedErrors(afterOutcomes)
        /\ pc = "done" =>
              \E engine \in SortEngines :
                 callbacks[1] =
                    errResult(ReportedErrors(afterOutcomes), validatedParams, engine)

C17_Witness ==
    /\ pc = "done"
    /\ Len(afterOutcomes) = 2
    /\ afterOutcomes[1] = JsArray(<<PlainObjectError, [meo |-> 43]>>)
    /\ afterOutcomes[2] = PlainObjectError
    /\ Len(errs) = 3
    /\ IsInternalFailure(callbacks[1])

\* C18 as claimed: no step of a pass changes the schema object: strict,
\* required, optional and after hold the values they held before the call.
C18_SchemaUnchanged_Claimed == [][opts' = opts]_vars

\* C19: no step of a pass changes the input object, on any path; what the
\* validators hand over is written to the pass's own result mapping.
C19_InputUnchanged ==
    /\ [][params' = params]_vars
    /\ [][\A i \in DOMAIN toValidate :
             (CallsBack(i) /\ outcomes'[i].validated # Undefined)
             => /\ toValidate[i].field \in DOMAIN validatedParams'
                /\ params' = params]_vars

C19_Witness ==
    /\ pc = "done"
    /\ params.kind = "object"
    /\ InjectedKey \in DOMAIN validatedParams
    /\ InjectedKey \notin Range(params.keys)
    /\ \E i \in DOMAIN toValidate :
          /\ toValidate[i].field \in DOMAIN validatedParams
          /\ validatedParams[toValidate[i].field] = Validated(toValidate[i].field)
    /\ HasRes(callbacks[1])

(***************************************************************************)
(* The JavaScript values a stock validator of lib/validators.js is given.  *)
(* A string is the sequence of its characters; a number is held in         *)
(* thousandths, or is NaN; an array is JsArray(items); a plain object is   *)
(* Obj(EmptyMap).                                                          *)
(***************************************************************************)
JsString(chars) == [t |-> "string", chars |-> chars]
JsNumber(milli) == [t |-> "number", nan |-> FALSE, milli |-> milli]
NaN == [t |-> "number", nan |-> TRUE, milli |-> 0]
JsBoolean(b) == [t |-> "boolean", b |-> b]

\* typeof (v)
Typeof(v) ==
    IF v.t \in {"string", "number", "boolean", "undefined"} THEN v.t ELSE "object"

Digits == <<"0", "1", "2", "3", "4", "5", "6", "7", "8", "9">>

IsDigit(c) == c \in Range(Digits)
IsHex(c) == IsDigit(c) \/ c \in {"a", "b", "c", "d", "e", "f"}

\* \s of a regular expression, for the characters the model uses.
IsSpace(c) == c \in {" ", "\t"}

DigitValue(c) == (CHOOSE i \in DOMAIN Digits : Digits[i] = c) - 1

\* The number a string of decimal digits denotes.
RECURSIVE DecimalValue(_)
DecimalValue(ds) ==
    IF ds = << >> THEN 0
    ELSE 10 * DecimalValue(SubSeq(ds, 1, Len(ds) - 1)) + DigitValue(ds[Len(ds)])

\* The decimal digits of a natural number.
RECURSIVE DecimalDigits(_)
DecimalDigits(n) ==
    IF n < 10 THEN <<Digits[n + 1]>>
    ELSE DecimalDigits(n \div 10) \o <<Digits[(n % 10) + 1]>>

Rep(c, n) == [i \in 1..n |-> c]

\* str.split(sep), sep one character.
RECURSIVE Split(_, _)
Split(s, sep) ==
    IF \A i \in DOMAIN s : s[i] # sep THEN <<s>>
    ELSE LET i == CHOOSE j \in DOMAIN s :
                      s[j] = sep /\ \A k \in 1..(j - 1) : s[k] # sep
         IN  <<SubSeq(s, 1, i - 1)>> \o Split(SubSeq(s, i + 1, Len(s)), sep)

\* arr.join(sep)
RECURSIVE Join(_, _)
Join(parts, sep) ==
    IF parts = << >> THEN << >>
    ELSE IF Len(parts) = 1 THEN parts[1]
    ELSE parts[1] \o sep \o Join(Tail(parts), sep)

\* str.replace(/\s+/, ''): the first run of white space is taken out.
ReplaceFirstSpaces(s) ==
    IF \A i \in DOMAIN s : ~IsSpace(s[i]) THEN s
    ELSE LET from == CHOOSE j \in DOMAIN s :
                         IsSpace(s[j]) /\ \A k \in 1..(j - 1) : ~IsSpace(s[k])
             upto == CHOOSE j \in from..Len(s) :
                         /\ \A k \in from..j : IsSpace(s[k])
                         /\ (j = Len(s) \/ ~IsSpace(s[j + 1]))
         IN  SubSeq(s, 1, from - 1) \o SubSeq(s, upto + 1, Len(s))

\* str.replace(STR_RE, ''), STR_RE = /\s/g
ReplaceAllSpaces(s) == SelectSeq(s, LAMBDA c : ~IsSpace(c))

\* str.trim()
RECURSIVE TrimStart(_)
TrimStart(s) ==
    IF s # << >> /\ IsSpace(s[1]) THEN TrimStart(Tail(s)) ELSE s

RECURSIVE TrimEnd(_)
TrimEnd(s) ==
    IF s # << >> /\ IsSpace(s[Len(s)]) THEN TrimEnd(SubSeq(s, 1, Len(s) - 1)) ELSE s

Trim(s) == TrimEnd(TrimStart(s))

\* The thousandths a fraction's digits denote (the model's strings have at
\* most three of them).
FractionMilli(ds) == DecimalValue(SubSeq(ds \o <<"0", "0", "0">>, 1, 3))

\* The number of a decimal literal given by its sign and by its parts before
\* and behind the '.', or NaN when the parts are no such literal.
PartsToNumber(negative, parts) ==
    LET whole == parts[1]
        frac == IF Len(parts) = 2 THEN parts[2] ELSE << >>
        value == 1000 * DecimalValue(whole) + FractionMilli(frac)
    IN  IF ~(/\ Len(parts) <= 2
             /\ \A i \in DOMAIN whole : IsDigit(whole[i])
             /\ \A i \in DOMAIN frac : IsDigit(frac[i])
             /\ whole # << >> \/ frac # << >>)
        THEN NaN
        ELSE IF negative THEN JsNumber(0 - value) ELSE JsNumber(value)

TrimmedToNumber(t) ==
    IF t = << >> THEN JsNumber(0)
    ELSE IF t[1] \in {"-", "+"} THEN PartsToNumber(t[1] = "-", Split(Tail(t), "."))
    ELSE PartsToNumber(FALSE, Split(t, "."))

\* Number(str) for a string of digits, signs, '.', white space and letters:
\* white space is trimmed, the empty string is 0, a decimal literal is its
\* value and everything else is NaN.
StringToNumber(s) == TrimmedToNumber(Trim(s))

\* Number(val) for a string or a number.
ToNumber(v) == IF v.t = "string" THEN StringToNumber(v.chars) ELSE v

RECURSIVE TrimZeros(_)
TrimZeros(ds) ==
    IF ds # << >> /\ ds[Len(ds)] = "0" THEN TrimZeros(SubSeq(ds, 1, Len(ds) - 1)) ELSE ds

\* The digits of a number's fraction given in thousandths, trailing zeros
\* left out.
FractionDigits(milli) ==
    LET ds == <<"0", "0">> \o DecimalDigits(milli)
    IN  TrimZeros(SubSeq(ds, Len(ds) - 2, Len(ds)))

\* String(v)
RECURSIVE ToStringChars(_)
ToStringChars(v) ==
    CASE v.t = "string" -> v.chars
      [] v.t = "null" -> <<"n", "u", "l", "l">>
      [] v.t = "undefined" -> <<"u", "n", "d", "e", "f", "i", "n", "e", "d">>
      [] v.t = "boolean" ->
            IF v.b THEN <<"t", "r", "u", "e">> ELSE <<"f", "a", "l", "s", "e">>
      [] v.t = "number" ->
            IF v.nan THEN <<"N", "a", "N">>
            ELSE LET abs == IF v.milli < 0 THEN 0 - v.milli ELSE v.milli
                     sign == IF v.milli < 0 THEN <<"-">> ELSE << >>
                 IN  IF abs % 1000 = 0
                     THEN sign \o DecimalDigits(abs \div 1000)
                     ELSE sign \o DecimalDigits(abs \div 1000) \o <<".">>
                               \o FractionDigits(abs % 1000)
      [] v.t = "array" ->
            Join([i \in DOMAIN v.items |->
                     IF v.items[i].t \in {"null", "undefined"} THEN << >>
                     ELSE ToStringChars(v.items[i])], <<",">>)
      [] v.t = "object" ->
            <<"[", "o", "b", "j", "e", "c", "t", " ", "O", "b", "j", "e", "c", "t", "]">>

(***************************************************************************)
(* Strings in the default order of Array.prototype.sort (by code unit).    *)
(***************************************************************************)
\* The characters of the model's strings, in the order of their code units.
Alphabet ==
    <<"\t", " ", "*", "+", ",", "-", ".", "/",
      "0", "1", "2", "3", "4", "5", "6", "7", "8", "9", ":",
      "E", "N", "O", "[", "]",
      "a", "b", "c", "d", "e", "f", "g", "i", "j", "l", "m", "n", "o", "p",
      "r", "s", "t", "u", "y">>

CharRank(c) == CHOOSE i \in DOMAIN Alphabet : Alphabet[i] = c

CharsLess(s, t) ==
    StrLess([i \in DOMAIN s |-> CharRank(s[i])], [i \in DOMAIN t |-> CharRank(t[i])])

\* x put into the sorted array `sorted`.
InsertString(sorted, x) ==
    SelectSeq(sorted, LAMBDA y : ~CharsLess(x, y)) \o <<x>>
        \o SelectSeq(sorted, LAMBDA y : CharsLess(x, y))

\* arr.sort() of an array of strings.
RECURSIVE SortStrings(_)
SortStrings(a) ==
    IF a = << >> THEN << >>
    ELSE InsertString(SortStrings(SubSeq(a, 1, Len(a) - 1)), a[Len(a)])

\* obj[key] = 1 : a key the object has keeps its place.
SetKey(keys, key) == IF key \in Range(keys) THEN keys ELSE Append(keys, key)

\* The keys of an object whose properties were set in the order of `keys`.
RECURSIVE ObjectKeys(_)
ObjectKeys(keys) ==
    IF keys = << >> THEN << >>
    ELSE SetKey(ObjectKeys(SubSeq(keys, 1, Len(keys) - 1)), keys[Len(keys)])

(***************************************************************************)
(* UUID_RE, net.isIP and ip6addr, as lib/validators.js uses them.          *)
(***************************************************************************)
\* UUID_RE.test(str)
UUID_RE(s) ==
    /\ Len(s) = 36
    /\ \A i \in 1..36 :
          IF i \in {9, 14, 19, 24} THEN s[i] = "-" ELSE IsHex(s[i])

\* A dotted quad: four decimal numbers of at most 255, without leading zeros.
IsIPv4(parts) ==
    /\ Len(parts) = 4
    /\ \A i \in 1..4 :
          /\ Len(parts[i]) \in 1..3
          /\ \A j \in DOMAIN parts[i] : IsDigit(parts[i][j])
          /\ Len(parts[i]) > 1 => parts[i][1] # "0"
          /\ DecimalValue(parts[i]) <= 255

\* An IPv6 literal of hexadecimal groups, "::" standing for one run of zero
\* groups (no embedded dotted quad, no zone).
IsIPv6(parts) ==
    LET n == Len(parts)
        gaps == {i \in 2..(n - 1) : parts[i] = << >>}
        groups == SelectSeq(parts, LAMBDA g : g # << >>)
    IN  /\ n >= 3
        /\ \A i \in 1..n :
              Len(parts[i]) <= 4 /\ \A j \in DOMAIN parts[i] : IsHex(parts[i][j])
        /\ Cardinality(gaps) <= 1
        /\ parts[1] = << >> => parts[2] = << >>
        /\ parts[n] = << >> => parts[n - 1] = << >>
        /\ IF gaps # {} THEN Len(groups) <= 7 ELSE Len(groups) = 8

\* net.isIP of the characters of a string.
isIP(s) ==
    IF IsIPv4(Split(s, ".")) THEN 4 ELSE IF IsIPv6(Split(s, ":")) THEN 6 ELSE 0

\* The number a string of hexadecimal digits denotes.
RECURSIVE HexValue(_)
HexValue(hs) ==
    IF hs = << >> THEN 0
    ELSE LET c == hs[Len(hs)]
             d == IF IsDigit(c) THEN DigitValue(c)
                  ELSE CASE c = "a" -> 10 [] c = "b" -> 11 [] c = "c" -> 12
                         [] c = "d" -> 13 [] c = "e" -> 14 [] c = "f" -> 15
         IN  16 * HexValue(SubSeq(hs, 1, Len(hs) - 1)) + d

\* The eight 16-bit groups of an IPv6 literal, from its parts between ':'.
IPv6GroupsOf(parts, gap) ==
    LET head == SelectSeq(SubSeq(parts, 1, gap - 1), LAMBDA g : g # << >>)
        tail == SelectSeq(SubSeq(parts, gap + 1, Len(parts)), LAMBDA g : g # << >>)
    IN  IF gap = 0 THEN [i \in 1..8 |-> HexValue(parts[i])]
        ELSE [i \in DOMAIN head |-> HexValue(head[i])]
                 \o [i \in 1..(8 - Len(head) - Len(tail)) |-> 0]
                 \o [i \in DOMAIN tail |-> HexValue(tail[i])]

\* The index of the empty part "::" leaves, or 0.
GapOf(parts) ==
    IF \E i \in 2..(Len(parts) - 1) : parts[i] = << >>
    THEN CHOOSE i \in 2..(Len(parts) - 1) : parts[i] = << >>
    ELSE 0

IPv6Groups(s) == IPv6GroupsOf(Split(s, ":"), GapOf(Split(s, ":")))

\* One step of the division of a string of decimal digits by 256.
DivideStep(prev, digit) ==
    [quot |-> Append(prev.quot, Digits[((prev.rem * 10 + DigitValue(digit)) \div 256) + 1]),
     rem |-> (prev.rem * 10 + DigitValue(digit)) % 256]

\* A string of decimal digits divided by 256: the digits of the quotient
\* and the remainder.
RECURSIVE DivideBy256(_)
DivideBy256(ds) ==
    IF ds = << >> THEN [quot |-> << >>, rem |-> 0]
    ELSE DivideStep(DivideBy256(SubSeq(ds, 1, Len(ds) - 1)), ds[Len(ds)])

\* The remainders of four divisions by 256 and the last quotient.
RECURSIVE Divisions(_, _)
Divisions(ds, n) ==
    IF n = 0 THEN [octets |-> << >>, quot |-> ds]
    ELSE [octets |-> Divisions(DivideBy256(ds).quot, n - 1).octets
                        \o <<DivideBy256(ds).rem>>,
          quot |-> Divisions(DivideBy256(ds).quot, n - 1).quot]

\* The four octets of the number a string of digits denotes, and whether
\* the number is below 2^32.
LongOctets(ds) ==
    [octets |-> Divisions(ds, 4).octets,
     fits |-> \A i \in DOMAIN Divisions(ds, 4).quot : Divisions(ds, 4).quot[i] = "0"]

\* The four octets of a dotted quad.
IPv4Octets(s) == [i \in 1..4 |-> DecimalValue(Split(s, ".")[i])]

\* ipaddr.parse of a number.
parseLong(long) ==
    IF long.fits THEN [kind |-> "ipv4", width |-> 8, groups |-> long.octets]
    ELSE Null

\* toIPAddr(addr) of _validateSubnet: a string of digits is parsed as the
\* 32-bit number of an IPv4 address, any other string as an address
\* literal; null stands for an address ip6addr does not parse.  `width` is
\* the number of bits of a group.
toIPAddr(addr) ==
    IF addr # << >> /\ \A i \in DOMAIN addr : IsDigit(addr[i])
    THEN parseLong(LongOctets(addr))
    ELSE IF IsIPv4(Split(addr, "."))
         THEN [kind |-> "ipv4", width |-> 8, groups |-> IPv4Octets(addr)]
    ELSE IF IsIPv6(Split(addr, ":"))
         THEN [kind |-> "ipv6", width |-> 16, groups |-> IPv6Groups(addr)]
    ELSE Null

\* ipaddr.createCIDR(ip, bits).address().compare(ip) === 0 : the bits of ip
\* behind the prefix are all zero.
IsNetworkAddress(ip, bits) ==
    \A g \in DOMAIN ip.groups :
        IF ip.width * g <= bits THEN TRUE
        ELSE IF ip.width * (g - 1) >= bits THEN ip.groups[g] = 0
        ELSE ip.groups[g] % (2^(ip.width * g - bits)) = 0

(***************************************************************************)
(* lib/constants.js, as lib/validators.js uses it.                         *)
(***************************************************************************)
ARRAY_OF_STR == "must be an array of strings"
ARRAY_EMPTY == "must not be an empty array"
STR == "must be a string"
INVALID_UUID == "invalid UUID"
CIDR_SUBNET == "Subnet must be in CIDR form"
OFFSET == "invalid value, offset must be an integer greater than or equal to 0"
LIMIT == "invalid limit, must be an integer greater than 0 or less than or equal to 1000"
MAX_LIMIT == 1000
MAX_STR_LEN == 64
SUBNET_MIN_IPV4 == 8
SUBNET_MIN_IPV6 == 8
MIN_LIMIT == 1
MIN_OFFSET == 0

\* constants.msg.STR_EMPTY, UUID_WILDCARD, UUID_PREF and UUID_PREF_CHAR:
\* MESSAGES has no such property, so the message handed to invalidParam is
\* undefined (not given).
NoSuchMessage == ""

(***************************************************************************)
(* lib/common.js and lib/validators.js.  A validator's value is what its   *)
(* invocation does: it hands (e, validated) to its callback, or it throws. *)
(***************************************************************************)
Callback(e, validated) == [kind |-> "callback", e |-> e, validated |-> validated]
Throws(error) == [kind |-> "throw", error |-> error]

\* err.invalid = list
WithInvalid(err, list) == err @@ ("invalid" :> list)

\* arrayify(obj), for an array or a string.
arrayify(obj) ==
    IF Typeof(obj) = "object" THEN obj.items
    ELSE IF obj.chars = << >> THEN << >>
    ELSE [i \in DOMAIN Split(obj.chars, ",") |-> JsString(Split(obj.chars, ",")[i])]

EmptyString == <<"E", "m", "p", "t", "y", " ", "s", "t", "r", "i", "n", "g">>

validateIParray(name, arr) ==
    IF ~ArrayIsArray(arr) /\ Typeof(arr) # "string"
    THEN Callback(invalidParam(name, STR), Undefined)
    ELSE LET ip_array == arrayify(arr)
         IN  IF Len(ip_array) = 0
             THEN Callback(WithInvalid(invalidParam(name, "invalid IP"),
                                       <<EmptyString>>), Undefined)
             ELSE IF \E i \in DOMAIN ip_array : ip_array[i].t # "string"
             THEN Throws("TypeError")
             ELSE LET ip == [i \in DOMAIN ip_array |->
                                ReplaceFirstSpaces(ip_array[i].chars)]
                      errs_ == SelectSeq(ip, LAMBDA i : isIP(i) = 0)
                      ips == SelectSeq(ip, LAMBDA i : isIP(i) # 0)
                  IN  IF Len(errs_) # 0
                      THEN Callback(WithInvalid(
                               invalidParam(name, IF Len(errs_) = 1 THEN "invalid IP"
                                                  ELSE "invalid IPs"),
                               SortStrings(errs_)), Undefined)
                      ELSE Callback(Null,
                               JsArray([i \in DOMAIN ips |->
                                           JsNumber(1000 * isIP(ips[i]))]))

\* _validateIP(addr): true when addr is invalid.
_validateIP(addr) == ~(isIP(ToStringChars(addr)) # 0)

validateIP(name, addr) ==
    IF _validateIP(addr)
    THEN Callback(invalidParam(name, "invalid IP address"), Undefined)
    ELSE Callback(Null, addr)

validIPv4SubnetBits(ip, subnet_bits) ==
    /\ ip.kind = "ipv4"
    /\ subnet_bits.milli >= 1000 * SUBNET_MIN_IPV4
    /\ subnet_bits.milli <= 1000 * 32

validIPv6SubnetBits(ip, subnet_bits) ==
    /\ ip.kind = "ipv6"
    /\ subnet_bits.milli >= 1000 * SUBNET_MIN_IPV6
    /\ subnet_bits.milli <= 1000 * 128

\* _validateSubnet from `var ip = toIPAddr(subnet[0])` on.  The prefix
\* lengths of the model's strings are whole numbers.
SubnetParamsInvalid(ip, subnet_bits) ==
    IF ip = Null THEN TRUE
    ELSE IF subnet_bits.nan
            \/ (~validIPv4SubnetBits(ip, subnet_bits)
                    /\ ~validIPv6SubnetBits(ip, subnet_bits))
    THEN TRUE
    ELSE ~IsNetworkAddress(ip, subnet_bits.milli \div 1000)

\* _validateSubnet from `subnet.length !== 2` on.
SubnetPartsInvalid(subnet) ==
    IF Len(subnet) # 2 THEN TRUE
    ELSE SubnetParamsInvalid(toIPAddr(subnet[1]), StringToNumber(subnet[2]))

\* _validateSubnet(subnetTxt): true when subnetTxt is invalid.
_validateSubnet(subnetTxt) ==
    IF Typeof(subnetTxt) # "string" THEN TRUE
    ELSE SubnetPartsInvalid(Split(subnetTxt.chars, "/"))

validateSubnetArray(name, arr) ==
    IF ~ArrayIsArray(arr) /\ Typeof(arr) # "string"
    THEN Callback(invalidParam(name, STR), Undefined)
    ELSE LET sn_array == arrayify(arr)
         IN  IF Len(sn_array) = 0
             THEN Callback(WithInvalid(invalidParam(name, CIDR_SUBNET),
                                       <<EmptyString>>), Undefined)
             ELSE IF \E i \in DOMAIN sn_array : sn_array[i].t # "string"
             THEN Throws("TypeError")
             ELSE LET sn == [i \in DOMAIN sn_array |->
                                ReplaceFirstSpaces(sn_array[i].chars)]
                      errs_ == SelectSeq(sn, LAMBDA i : _validateSubnet(JsString(i)))
                      sns == SelectSeq(sn, LAMBDA i : ~_validateSubnet(JsString(i)))
                  IN  IF Len(errs_) # 0
                      THEN Callback(WithInvalid(invalidParam(name, CIDR_SUBNET),
                                                SortStrings(errs_)), Undefined)
                      ELSE Callback(Null,
                               JsArray([i \in DOMAIN sns |-> JsString(sns[i])]))

validateSubnet(name, subnet) ==
    IF _validateSubnet(subnet)
    THEN Callback(invalidParam(name, CIDR_SUBNET), Undefined)
    ELSE Callback(Null, subnet)

\* _validateUUID(uuid): true when uuid is invalid; test() takes its
\* argument as a string.
_validateUUID(uuid) == ~UUID_RE(ToStringChars(uuid))

validateUUID(name, uuid) ==
    IF _validateUUID(uuid)
    THEN Callback(invalidParam(name, INVALID_UUID), Undefined)
    ELSE Callback(Null, uuid)

isValidUUID(uuid) == ~(Typeof(uuid) # "string" \/ ~UUID_RE(uuid.chars))

validateUUIDarray(name, val) ==
    IF ~ArrayIsArray(val) /\ Typeof(val) # "string"
    THEN Callback(invalidParam(name, ARRAY_OF_STR), Undefined)
    ELSE LET arr == arrayify(val)
             keys == [i \in DOMAIN arr |-> ToStringChars(arr[i])]
             valid == ObjectKeys(SelectSeq(keys, UUID_RE))
             invalid == ObjectKeys(SelectSeq(keys, LAMBDA k : ~UUID_RE(k)))
         IN  IF invalid # << >>
             THEN Callback(WithInvalid(invalidParam(name, "invalid UUID"),
                                       SortStrings(invalid)), Undefined)
             ELSE Callback(Null,
                      JsArray([i \in DOMAIN valid |-> JsString(SortStrings(valid)[i])]))

TooLong == "must not be longer than 64 characters"

validateUUIDPrefix(name, str) ==
    IF Typeof(str) # "string"
    THEN Callback(invalidParam(name, STR), Undefined)
    ELSE LET nstars == Cardinality({i \in DOMAIN str.chars : str.chars[i] = "*"})
         IN  IF Len(str.chars) > MAX_STR_LEN
             THEN Callback(invalidParam(name, TooLong), Undefined)
             ELSE IF ReplaceAllSpaces(str.chars) = << >>
             THEN Callback(invalidParam(name, "must not be empty"), Undefined)
             ELSE IF nstars > 1
             THEN Callback(invalidParam(name, NoSuchMessage), Undefined)
             ELSE IF nstars > 0 /\ str.chars[Len(str.chars)] # "*"
             THEN Callback(invalidParam(name, NoSuchMessage), Undefined)
             ELSE IF nstars > 0
                     /\ ~(\A i \in DOMAIN str.chars :
                             IsHex(str.chars[i]) \/ str.chars[i] \in {"*", "-"})
             THEN Callback(invalidParam(name, NoSuchMessage), Undefined)
             ELSE IF nstars = 0 /\ ~isValidUUID(str)
             THEN Callback(invalidParam("Invalid UUID", NoSuchMessage), Undefined)
             ELSE Callback(Null, str)

\* isNaN(id), Math.floor(id) !== id
IsNaN(id) == id.nan

\* isNotInteger(val, id), called with a string; assert.string(val) throws
\* for any other value.
isNotInteger(val, id) ==
    val.chars = << >> \/ Trim(val.chars) # val.chars \/ IsNaN(id) \/ id.milli % 1000 # 0

validateOffset(name, val) ==
    LET id == ToNumber(val)
    IN  IF Typeof(val) # "number" /\ Typeof(val) # "string"
        THEN Throws("AssertionError")
        ELSE IF Typeof(val) # "number" /\ isNotInteger(val, id)
        THEN Callback(invalidParam(name, OFFSET), Undefined)
        ELSE IF IsNaN(id) \/ id.milli < 1000 * MIN_OFFSET
        THEN Callback(invalidParam(name, OFFSET), Undefined)
        ELSE Callback(Null, id)

validateLimit(name, val) ==
    LET id == ToNumber(val)
    IN  IF Typeof(val) # "number" /\ Typeof(val) # "string"
        THEN Throws("AssertionError")
        ELSE IF Typeof(val) # "number" /\ isNotInteger(val, id)
        THEN Callback(invalidParam(name, LIMIT), Undefined)
        ELSE IF IsNaN(id) \/ id.milli < 1000 * MIN_LIMIT
                \/ id.milli > 1000 * MAX_LIMIT
        THEN Callback(invalidParam(name, LIMIT), Undefined)
        ELSE Callback(Null, id)

validateString(name, str) ==
    IF Typeof(str) # "string"
    THEN Callback(invalidParam(name, STR), Undefined)
    ELSE IF Len(str.chars) > MAX_STR_LEN
    THEN Callback(invalidParam(name, TooLong), Undefined)
    ELSE IF ReplaceAllSpaces(str.chars) = << >>
    THEN Callback(invalidParam(name, NoSuchMessage), Undefined)
    ELSE Callback(Null, str)

\* The error validateStringArray reports for the element v, or null.
StringElementError(name, v) ==
    IF Typeof(v) # "string" THEN invalidParam(name, ARRAY_OF_STR)
    ELSE IF ReplaceAllSpaces(v.chars) = << >> THEN invalidParam(name, NoSuchMessage)
    ELSE Null

validateStringArray(name, vals) ==
    IF ~ArrayIsArray(vals)
    THEN Callback(invalidParam(name, ARRAY_OF_STR), Undefined)
    ELSE IF Len(vals.items) = 0
    THEN Callback(invalidParam(name, ARRAY_EMPTY), Undefined)
    ELSE LET bad == {i \in DOMAIN vals.items :
                        StringElementError(name, vals.items[i]) # Null}
         IN  IF bad # {}
             THEN Callback(StringElementError(name,
                      vals.items[CHOOSE i \in bad : \A j \in bad : i <= j]), Undefined)
             ELSE Callback(Null, vals)

validateStringOrArray(name, val) ==
    IF Truthy(validateString(name, val).e)
    THEN validateStringArray(name, val)
    ELSE Callback(Null, validateString(name, val).validated)

\* The error _validateFieldsArray reports for the element v, or null.
FieldElementError(fields, name, v) ==
    IF Typeof(v) # "string" THEN invalidParam(name, ARRAY_OF_STR)
    ELSE IF v \notin Range(fields) THEN invalidParam(name, "unknown field specified")
    ELSE Null

validateFieldsArray(fields, name, arr) ==
    IF ~ArrayIsArray(arr)
    THEN Callback(invalidParam(name, ARRAY_OF_STR), Undefined)
    ELSE IF Len(arr.items) = 0
    THEN Callback(invalidParam(name, ARRAY_EMPTY), Undefined)
    ELSE IF Len(arr.items) > Len(fields)
    THEN \* fmt('can only specify a maximum of %d fields', fields.length)
         Callback([invalidParam(name, "") EXCEPT !.message =
                      [text |-> "can only specify a maximum of %d fields",
                       list |-> << >>, d |-> Len(fields)]], Undefined)
    ELSE LET bad == {i \in DOMAIN arr.items :
                        FieldElementError(fields, name, arr.items[i]) # Null}
         IN  IF bad # {}
             THEN Callback(FieldElementError(fields, name,
                      arr.items[CHOOSE i \in bad : \A j \in bad : i <= j]), Undefined)
             ELSE Callback(Null, arr)

validateBoolean(name, val) ==
    IF Typeof(val) = "boolean" THEN Callback(Null, val)
    ELSE IF val = JsString(<<"t", "r", "u", "e">>) THEN Callback(Null, JsBoolean(TRUE))
    ELSE IF val = JsString(<<"f", "a", "l", "s", "e">>) THEN Callback(Null, JsBoolean(FALSE))
    ELSE Callback(invalidParam(name, "must be a boolean value"), Undefined)

\* values.indexOf(value) === -1 : strict equality finds a string, a boolean,
\* null, undefined or a number other than NaN, never an array or an object
\* created elsewhere.
NotInValues(values, value) ==
    \/ value.t \in {"array", "object"}
    \/ (value.t = "number" /\ value.nan)
    \/ value \notin Range(values)

\* 'must be one of: ' + values.map(JSON.stringify).join(', ')
MustBeOneOf(values) == [text |-> "must be one of: ", list |-> << >>, values |-> values]

validateEnum(values, name, value) ==
    IF NotInValues(values, value)
    THEN Callback([invalidParam(name, "") EXCEPT !.message = MustBeOneOf(values)],
                  Undefined)
    ELSE Callback(Null, value)

(***************************************************************************)
(* A pass whose one declared field is checked by a stock validator.        *)
(***************************************************************************)
\* module.exports of lib/validators.js; fieldsArray and enum are taken with
\* the lists below.
StockValidators ==
    {"fieldsArray", "IParray", "IP", "subnet", "subnetArray", "stringArray",
     "string", "stringOrArray", "uuidPrefix", "UUID", "UUIDarray", "offset",
     "limit", "boolean", "enum"}

AllowedFields == <<JsString(<<"a", "b">>), JsString(<<"5">>)>>
EnumValues == <<JsString(<<"a", "b">>), JsNumber(5000), Null>>

StockResult(fn, name, val) ==
    CASE fn = "fieldsArray" -> validateFieldsArray(AllowedFields, name, val)
      [] fn = "IParray" -> validateIParray(name, val)
      [] fn = "IP" -> validateIP(name, val)
      [] fn = "subnet" -> validateSubnet(name, val)
      [] fn = "subnetArray" -> validateSubnetArray(name, val)
      [] fn = "stringArray" -> validateStringArray(name, val)
      [] fn = "string" -> validateString(name, val)
      [] fn = "stringOrArray" -> validateStringOrArray(name, val)
      [] fn = "uuidPrefix" -> validateUUIDPrefix(name, val)
      [] fn = "UUID" -> validateUUID(name, val)
      [] fn = "UUIDarray" -> validateUUIDarray(name, val)
      [] fn = "offset" -> validateOffset(name, val)
      [] fn = "limit" -> validateLimit(name, val)
      [] fn = "boolean" -> validateBoolean(name, val)
      [] fn = "enum" -> validateEnum(EnumValues, name, val)

\* Well-formed strings among the inputs.
Sample ==
    [uuidA |-> Rep("a", 8) \o <<"-">> \o Rep("0", 4) \o <<"-">> \o Rep("1", 4)
                  \o <<"-">> \o Rep("f", 4) \o <<"-">> \o Rep("9", 12),
     uuidB |-> Rep("b", 8) \o <<"-">> \o Rep("0", 4) \o <<"-">> \o Rep("1", 4)
                  \o <<"-">> \o Rep("f", 4) \o <<"-">> \o Rep("9", 12),
     ipv4A |-> <<"1", ".", "2", ".", "3", ".", "4">>,
     ipv6A |-> <<"f", "d", "0", "0", ":", ":", "1">>,
     subnetA |-> <<"1", "0", ".", "0", ".", "0", ".", "0", "/", "8">>]

\* The strings the model hands to a validator.
StockStrings ==
    {<< >>, <<" ">>, <<"a", "b">>, <<"0">>, <<"5">>, <<"1", "0", "0", "1">>,
     <<"1", ".", "5">>, <<" ", "5">>, <<"-", "1">>, <<"t", "r", "u", "e">>,
     Sample.ipv4A, Sample.ipv6A, Sample.ipv4A \o <<",">> \o Sample.ipv6A, Sample.ipv4A \o <<",", "b", "a", "d">>,
     Sample.subnetA, <<"1", "0", ".", "0", ".", "0", ".", "1", "/", "8">>,
     <<"f", "d", "0", "0", ":", ":", "/", "6", "4">>,
     Sample.uuidA, Sample.uuidB \o <<",">> \o Sample.uuidA, <<"a", "a", "*">>, <<"a", "*", "a">>,
     Rep("a", MAX_STR_LEN), Rep("a", MAX_STR_LEN + 1)}

\* The values the model hands to a validator: strings, numbers, booleans,
\* null, undefined, arrays of strings, arrays holding a value that is not
\* a string, and a plain object.
StockValues ==
    {JsString(s) : s \in StockStrings}
        \cup {JsNumber(0), JsNumber(5000), JsNumber(1500), JsNumber(0 - 1000),
              JsNumber(1001000), NaN}
        \cup {JsBoolean(TRUE), JsBoolean(FALSE), Null, Undefined, Obj(EmptyMap)}
        \cup {JsArray(a) : a \in
                {<< >>,
                 <<JsString(<<"a", "b">>)>>,
                 <<JsString(<< >>)>>,
                 <<JsString(<<"a", "b">>), JsString(Rep("a", MAX_STR_LEN + 1))>>,
                 <<JsString(Sample.ipv4A), JsString(Sample.ipv6A)>>,
                 <<JsString(Sample.subnetA)>>,
                 <<JsString(Sample.uuidB), JsString(Sample.uuidA), JsString(Sample.uuidB)>>,
                 <<JsNumber(5000)>>,
                 <<Null>>,
                 <<JsBoolean(TRUE)>>,
                 <<Obj(EmptyMap)>>,
                 <<JsArray(<<JsString(<<"a", "b">>)>>)>>,
                 <<JsArray(<<JsString(Sample.uuidA)>>)>>,
                 <<JsString(Sample.uuidA), JsString(<<"0">>), JsNumber(5000),
                   JsString(<<"0">>)>>,
                 <<JsString(<<"a", "b">>), JsNumber(5000)>>}}

\* The schemas of such a pass: the field "ip" is required or optional.
StockSchemas ==
    {[required |-> <<"ip">>, optional |-> << >>],
     [required |-> << >>, optional |-> <<"ip">>]}

StockInit ==
    /\ opts \in StockSchemas
    /\ params = [kind |-> "object", keys |-> <<"ip">>]
    /\ pc = "start"
    /\ toValidate = << >>
    /\ pending = {}
    /\ errs = << >>
    /\ validatedParams = EmptyMap
    /\ afterPending = 0
    /\ callbacks = << >>
    /\ invoked = << >>
    /\ afterInvoked = << >>
    /\ outcomes = << >>
    /\ afterOutcomes = << >>
    /\ phases = << >>
    /\ stock \in [fn : StockValidators, val : StockValues]
    /\ other = [pc |-> "none"]

\* val.fn(arg, val.field, val.val, function (e, validated, multi) ...) with
\* a stock validator: it calls back before it returns, or it throws, and
\* then the exception leaves forEachParallel and validateParams and the
\* callback is never called.
StockValidatorCallback(i) ==
    /\ pc = "fields"
    /\ i \in pending
    /\ LET r == StockResult(stock.fn, toValidate[i].field, stock.val)
       IN  IF r.kind = "throw"
           THEN /\ pc' = "threw"
                /\ UNCHANGED <<opts, pending, errs, validatedParams, afterPending,
                               callbacks, afterInvoked, outcomes, phases>>
           ELSE Deliver(i, Outcome(r.e, r.validated, Undefined))
    /\ UNCHANGED <<params, toValidate, invoked, afterOutcomes, stock, other>>

StockNext ==
    \/ validateParams
    \/ \E i \in DOMAIN toValidate : StockValidatorCallback(i)

StockSpec == StockInit /\ [][StockNext]_vars

\* C20 as claimed: no stock validator throws, whatever the type of the raw
\* value: it reports through its callback, so that no exception escapes
\* validateParams and every pass reaches aggregation.
C20_StockNeverThrows_Claimed ==
    /\ pc # "threw"
    /\ pc \in {"start", "fields", "done"}
    /\ pc = "done" => Len(callbacks) = 1

(***************************************************************************)
(* Definitions the properties of the stock validators share.               *)
(***************************************************************************)
\* The stock validator fn has called back in this pass.
Ran(fn) == stock.fn = fn /\ 1 \in DOMAIN outcomes

\* It reported an error / it reported none.
Rejected == Truthy(outcomes[1].e)
Accepted == ~Truthy(outcomes[1].e)

\* C21 as claimed: every error that a stock validator reports when invoked
\* for the field name n has the code 'InvalidParameter' and a `field` equal
\* to n, for every stock validator and every rejected input.
C21_ErrorNamesField_Claimed ==
    \A i \in DOMAIN outcomes :
        Truthy(outcomes[i].e) =>
            /\ CodeIs(outcomes[i].e, "InvalidParameter")
            /\ outcomes[i].e.field = Str(toValidate[i].field)

\* The elements of the array, or of the comma-separated string, a
\* validator is given.
Elements(val) == IF val.t = "string" THEN arrayify(val) ELSE val.items

\* v is a string in the canonical form of a UUID.
IsCanonicalUUID(v) == v.t = "string" /\ UUID_RE(v.chars)

\* The strings of seq are in ascending order and no string occurs twice.
Ascending(seq) == \A i, j \in DOMAIN seq : i < j => CharsLess(seq[i], seq[j])

\* C22 as claimed: validateUUIDarray, given an array (or comma-separated
\* string) whose elements are all canonical UUIDs, yields those elements
\* with duplicates removed in ascending order, and validating its own
\* output again returns the same list; if any element is not a canonical
\* UUID it rejects with an error whose `invalid` list holds the offending
\* elements (as strings), without duplicates and sorted, and yields no
\* value.
C22_UUIDarray_Claimed ==
    (Ran("UUIDarray") /\ stock.val.t \in {"string", "array"}) =>
        LET elems == Elements(stock.val)
            offending == {ToStringChars(elems[i]) :
                             i \in {j \in DOMAIN elems : ~IsCanonicalUUID(elems[j])}}
            o == outcomes[1]
        IN  IF offending = {}
            THEN /\ Accepted
                 /\ ArrayIsArray(o.validated)
                 /\ \A i \in DOMAIN o.validated.items : o.validated.items[i].t = "string"
                 /\ Range(o.validated.items) = Range(elems)
                 /\ Ascending([i \in DOMAIN o.validated.items |->
                                  o.validated.items[i].chars])
                 /\ validateUUIDarray("ip", o.validated) = Callback(Null, o.validated)
            ELSE /\ Rejected
                 /\ o.validated = Undefined
                 /\ "invalid" \in DOMAIN o.e
                 /\ Range(o.e.invalid) = offending
                 /\ Ascending(o.e.invalid)

\* val is a number, or a numeric string without leading or trailing white
\* space, and its value is integral.
Integral(val) ==
    /\ val.t = "string" => val.chars # << >> /\ Trim(val.chars) = val.chars
    /\ ~ToNumber(val).nan
    /\ ToNumber(val).milli % 1000 = 0

\* The validator accepted val as its number if ok holds, and rejected it
\* with the message msg if not.
AcceptsIff(ok, val, msg) ==
    IF ok
    THEN Accepted /\ outcomes[1].validated = ToNumber(val)
    ELSE /\ Rejected
         /\ outcomes[1].e = invalidParam("ip", msg)
         /\ outcomes[1].validated = Undefined

\* C23 as claimed: validateOffset accepts a number or a string if and only
\* if it is integral and at least 0, and validateLimit if and only if it is
\* integral and within [1, 1000]; every other number or string, a value
\* with a fractional part included, is rejected with the offset or the
\* limit message.
C23_IntegerRange_Claimed ==
    /\ (Ran("offset") /\ stock.val.t \in {"number", "string"}) =>
           AcceptsIff(Integral(stock.val)
                          /\ ToNumber(stock.val).milli >= 1000 * MIN_OFFSET,
                      stock.val, OFFSET)
    /\ (Ran("limit") /\ stock.val.t \in {"number", "string"}) =>
           AcceptsIff(Integral(stock.val)
                          /\ ToNumber(stock.val).milli >= 1000 * MIN_LIMIT
                          /\ ToNumber(stock.val).milli <= 1000 * MAX_LIMIT,
                      stock.val, LIMIT)

\* v is a string that is not empty, not white space only and not longer
\* than the maximum length.
GoodString(v) ==
    /\ v.t = "string"
    /\ \E i \in DOMAIN v.chars : ~IsSpace(v.chars[i])
    /\ Len(v.chars) <= MAX_STR_LEN

\* v is a non-empty array of such strings.
GoodStringArray(v) ==
    /\ ArrayIsArray(v)
    /\ v.items # << >>
    /\ \A i \in DOMAIN v.items : GoodString(v.items[i])

\* C24 as claimed: validateString, validateStringArray and
\* validateStringOrArray reject every empty or white-space-only string and
\* every string longer than 64 characters, whether the string is the value
\* itself or an element of the array; validateStringOrArray accepts exactly
\* a non-empty string or a non-empty array of non-empty strings.
C24_StringValidators_Claimed ==
    /\ (Ran("string") /\ stock.val.t = "string" /\ ~GoodString(stock.val)) => Rejected
    /\ (Ran("stringArray") /\ ArrayIsArray(stock.val)
            /\ \E i \in DOMAIN stock.val.items :
                  stock.val.items[i].t = "string" /\ ~GoodString(stock.val.items[i]))
           => Rejected
    /\ Ran("stringOrArray") =>
           (Accepted <=> GoodString(stock.val) \/ GoodStringArray(stock.val))

\* C25: the unknown-field check, the after stage and the caller's callback
\* occur only after every dispatched field validator has called back, also
\* when an error is already recorded; while a dispatched validator has not
\* called back, the caller's callback is not invoked.
C25_WaitsForAll ==
    /\ pending # {} =>
          /\ pc = "fields"
          /\ callbacks = << >>
          /\ afterInvoked = << >>
          /\ afterOutcomes = << >>
          /\ Range(phases) \cap {"unknown", "cross", "aggregate"} = {}
    /\ (callbacks # << >> \/ afterInvoked # << >> \/ "unknown" \in Range(phases)) =>
          /\ pending = {}
          /\ DOMAIN outcomes = DOMAIN toValidate
          /\ Len(invoked) = Len(toValidate)

C25_Witness ==
    /\ pc = "fields"
    /\ Len(toValidate) = 2
    /\ Cardinality(pending) = 1
    /\ \E i \in DOMAIN outcomes : Truthy(outcomes[i].e)
    /\ errs # << >>
    /\ Strict(opts)
    /\ "after" \in DOMAIN opts
    /\ callbacks = << >>

\* C26: every task's validator is invoked without waiting for another
\* task's completion: while a validator has not called back, the validator
\* of every other present declared field has been invoked, can call back,
\* and has its error and its value recorded once it has called back (the
\* value under its field, unless a multi mapping wrote that key).
C26_NoWaitBetweenTasks ==
    pc = "fields" =>
        /\ Len(invoked) = Len(toValidate)
        /\ \A i \in DOMAIN toValidate :
              /\ invoked[i].field = toValidate[i].field
              /\ i \in pending => ENABLED ValidatorCallback(i)
              /\ i \notin pending =>
                    /\ i \in DOMAIN outcomes
                    /\ Truthy(outcomes[i].e) => outcomes[i].e \in Range(errs)
                    /\ outcomes[i].validated # Undefined =>
                          /\ toValidate[i].field \in DOMAIN validatedParams
                          /\ (\A j \in DOMAIN outcomes :
                                 IsMapping(outcomes[j].multi) =>
                                     toValidate[i].field \notin DOMAIN outcomes[j].multi.map)
                                => validatedParams[toValidate[i].field]
                                       = outcomes[i].validated

C26_Witness ==
    /\ pc = "fields"
    /\ pending = {1}
    /\ 2 \in DOMAIN outcomes
    /\ Truthy(outcomes[2].e)
    /\ outcomes[2].validated # Undefined
    /\ Len(invoked) = 2

(***************************************************************************)
(* The pass whose validators and after functions all call back: the call   *)
(* of validateParams is made, and every invoked field validator and every  *)
(* invoked after function calls back at some time.                         *)
(***************************************************************************)
LiveSpec ==
    /\ Spec
    /\ WF_vars(validateParams)
    /\ \A i \in 1..NumFields : WF_vars(ValidatorCallback(i))
    /\ WF_vars(AfterCallback)

\* C27: if every invoked field validator and every invoked after function
\* calls back, the pass at some time invokes the caller's callback, once;
\* also the pass whose task list is empty and the pass whose `after`
\* sequence is empty.
C27_EventuallyCallsBack == <>[](pc = "done" /\ Len(callbacks) = 1)

C27_Witness ==
    /\ pc = "done"
    /\ params.kind = "object"
    /\ toValidate = << >>
    /\ "after" \in DOMAIN opts
    /\ opts.after.fns = << >>
    /\ Len(callbacks) = 1
    /\ ~HasErr(callbacks[1])

(***************************************************************************)
(* Two calls of validateParams with the same schema object.  errs,         *)
(* validatedParams, toValidate and the callbacks in flight are local to a  *)
(* call; opts is the one object both calls hold.  The variables of the     *)
(* model are those of the call that runs, `other` holds those of the call  *)
(* that waits, and Switch hands the event loop to the other call.          *)
(***************************************************************************)
\* The inputs of the two calls: an object that lacks the required field,
\* one that has it, one that has it and an undeclared key, and null.
PairInputs ==
    {[kind |-> "object", keys |-> << >>],
     [kind |-> "object", keys |-> <<"ip">>],
     [kind |-> "object", keys |-> <<"ip", "hal">>],
     [kind |-> "null", keys |-> << >>]}

Switch_SharedAccumulators ==
    /\ other.pc # "none"
    /\ other' = [params |-> params, pc |-> pc, toValidate |-> toValidate,
                 pending |-> pending, errs |-> errs,
                 validatedParams |-> validatedParams,
                 afterPending |-> afterPending, callbacks |-> callbacks,
                 invoked |-> invoked, afterInvoked |-> afterInvoked,
                 outcomes |-> outcomes, afterOutcomes |-> afterOutcomes,
                 phases |-> phases]
    /\ params' = other.params
    /\ pc' = other.pc
    /\ toValidate' = other.toValidate
    /\ pending' = other.pending
    /\ afterPending' = other.afterPending
    /\ callbacks' = other.callbacks
    /\ invoked' = other.invoked
    /\ afterInvoked' = other.afterInvoked
    /\ outcomes' = other.outcomes
    /\ afterOutcomes' = other.afterOutcomes
    /\ phases' = other.phases
    /\ UNCHANGED <<opts, stock, errs, validatedParams>>

\* The call that runs yields to the other call: each call goes on with its
\* own local variables (validate.js:116-118, 138) and closures.
Switch ==
    /\ other.pc # "none"
    /\ other' = [params |-> params, pc |-> pc, toValidate |-> toValidate,
                 pending |-> pending, errs |-> errs,
                 validatedParams |-> validatedParams,
                 afterPending |-> afterPending, callbacks |-> callbacks,
                 invoked |-> invoked, afterInvoked |-> afterInvoked,
                 outcomes |-> outcomes, afterOutcomes |-> afterOutcomes,
                 phases |-> phases]
    /\ params' = other.params
    /\ pc' = other.pc
    /\ toValidate' = other.toValidate
    /\ pending' = other.pending
    /\ errs' = other.errs
    /\ validatedParams' = other.validatedParams
    /\ afterPending' = other.afterPending
    /\ callbacks' = other.callbacks
    /\ invoked' = other.invoked
    /\ afterInvoked' = other.afterInvoked
    /\ outcomes' = other.outcomes
    /\ afterOutcomes' = other.afterOutcomes
    /\ phases' = other.phases
    /\ UNCHANGED <<opts, stock>>

\* Both calls are about to be made, with a strict schema that requires the
\* field "ip" and declares `after`.
PairInit ==
    /\ opts \in {s \in Schemas : /\ s.required = <<"ip">>
                                /\ s.optional = << >>
                                /\ Strict(s)
                                /\ "after" \in DOMAIN s}
    /\ params \in PairInputs
    /\ pc = "start"
    /\ toValidate = << >>
    /\ pending = {}
    /\ errs = << >>
    /\ validatedParams = EmptyMap
    /\ afterPending = 0
    /\ callbacks = << >>
    /\ invoked = << >>
    /\ afterInvoked = << >>
    /\ outcomes = << >>
    /\ afterOutcomes = << >>
    /\ phases = << >>
    /\ stock = [fn |-> "none"]
    /\ other \in [params : PairInputs, pc : {"start"}, toValidate : {<< >>},
                  pending : {{}}, errs : {<< >>}, validatedParams : {EmptyMap},
                  afterPending : {0}, callbacks : {<< >>}, invoked : {<< >>},
                  afterInvoked : {<< >>}, outcomes : {<< >>},
                  afterOutcomes : {<< >>}, phases : {<< >>}]

PairNext ==
    \/ validateParams
    \/ \E i \in DOMAIN toValidate : ValidatorCallback(i)
    \/ AfterCallback
    \/ Switch

PairSpec == PairInit /\ [][PairNext]_vars

\* What a call delivers when it runs alone, from what its own validators
\* and after functions reported: the errors and the values of the tasks in
\* the order ord of their callbacks ...
RECURSIVE ErrsOf(_, _)
ErrsOf(es, ord) ==
    IF ord = << >> THEN es
    ELSE ErrsOf(PushErr(es, toValidate[Head(ord)], outcomes[Head(ord)]), Tail(ord))

RECURSIVE ValuesOf(_, _)
ValuesOf(validated, ord) ==
    IF ord = << >> THEN validated
    ELSE ValuesOf(SetValidated(validated, toValidate[Head(ord)], outcomes[Head(ord)]),
                  Tail(ord))

\* ... then the unknown-field check and, with no error so far, the errors
\* of the after functions.
RECURSIVE CrossErrsOf(_, _)
CrossErrsOf(es, reported) ==
    IF reported = << >> THEN es
    ELSE CrossErrsOf(ConcatErr(es, Head(reported)), Tail(reported))

AfterErrsOf(es) == IF EntersCross(es) THEN CrossErrsOf(es, afterOutcomes) ELSE es

Orders ==
    {ord \in [DOMAIN toValidate -> DOMAIN toValidate] :
        \A i, j \in DOMAIN ord : ord[i] = ord[j] => i = j}

AloneOutcomes ==
    IF NotAnObject(params)
    THEN {errResult(<<invalidParam("parameters", PARAMETERS_ARE_OBJECTS)>>,
                    EmptyMap, engine) : engine \in SortEngines}
    ELSE {errResult(AfterErrsOf(WithUnknowns(ErrsOf(MissingErrs(opts, params), ord))),
                    ValuesOf(EmptyMap, ord), engine) :
             ord \in Orders, engine \in SortEngines}

\* C28: two calls that use the same schema object, one after the other or
\* interleaved in any way, each deliver the outcome they would deliver when
\* run alone: the outcome of a call is made of what its own validators and
\* after functions reported, and of nothing the other call recorded.
C28_CallsIsolated ==
    pc = "done" =>
        /\ Len(callbacks) = 1
        /\ callbacks[1] \in AloneOutcomes
        /\ \A i \in DOMAIN errs :
              \/ errs[i] \in Range(MissingErrs(opts, params))
              \/ \E j \in DOMAIN outcomes : errs[i] = outcomes[j].e
              \/ errs[i] \in Range(ReportedErrors(afterOutcomes))
              \/ CodeIs(errs[i], "UnknownParameters")
              \/ errs[i] = invalidParam("parameters", PARAMETERS_ARE_OBJECTS)

C28_Witness ==
    /\ pc = "done"
    /\ other.pc = "cross"
    /\ other.afterPending = 1
    /\ opts.after.arr
    /\ HasErr(callbacks[1])
    /\ Len(outcomes) = 1
    /\ Truthy(outcomes[1].e)
    /\ other.errs = << >>
    /\ other.validatedParams # EmptyMap

\* C29: within one pass the error list only grows: every step leaves the
\* errors recorded so far in place, in their order, and a pass that has
\* recorded an error ends with an error and no result, whatever the
\* validators that call back later report.
C29_ErrorsOnlyGrow ==
    [][/\ Len(errs') >= Len(errs)
       /\ SubSeq(errs', 1, Len(errs)) = errs
       /\ (errs # << >> /\ callbacks' # << >>) =>
             /\ HasErr(callbacks'[1])
             /\ ~HasRes(callbacks'[1])]_vars

C29_Witness ==
    /\ pc = "done"
    /\ Len(toValidate) = 2
    /\ DOMAIN outcomes = {1, 2}
    /\ Truthy(outcomes[1].e)
    /\ ~Truthy(outcomes[2].e)
    /\ outcomes[2].validated # Undefined
    /\ errs = <<outcomes[1].e>>
    /\ HasErr(callbacks[1])
    /\ ~HasRes(callbacks[1])

\* The entry e as validateIParray tests it, and whether it is then an IPv4
\* or IPv6 literal.
Entry(e) == ReplaceFirstSpaces(ToStringChars(e))
IsIPLiteral(e) == e.t = "string" /\ isIP(Entry(e)) # 0

\* C30 as claimed, for an input with at least one entry: validateIParray,
\* given an array or comma-separated string in which every entry is an IPv4
\* or IPv6 literal, succeeds with one entry per input entry in input order,
\* each the address-family number (4 or 6) of the address; if any entry is
\* not an IP literal it yields no value and one error whose `invalid` list
\* holds the offending entries sorted.
C30_IParray_Claimed ==
    (/\ stock.fn = "IParray"
     /\ stock.val.t \in {"string", "array"}
     /\ pc \notin {"start", "fields"}
     /\ Elements(stock.val) # << >>) =>
        /\ 1 \in DOMAIN outcomes
        /\ LET elems == Elements(stock.val)
               offending == SelectSeq(elems, LAMBDA e : ~IsIPLiteral(e))
               o == outcomes[1]
           IN  IF offending = << >>
               THEN /\ Accepted
                    /\ o.validated =
                          JsArray([i \in DOMAIN elems |->
                                      JsNumber(1000 * isIP(Entry(elems[i])))])
               ELSE /\ Rejected
                    /\ o.validated = Undefined
                    /\ errs = <<o.e>>
                    /\ "invalid" \in DOMAIN o.e
                    /\ Len(o.e.invalid) = Len(offending)
                    /\ Range(o.e.invalid) = {Entry(offending[i]) : i \in DOMAIN offending}
                    /\ \A i, j \in DOMAIN o.e.invalid :
                          i < j => ~CharsLess(o.e.invalid[j], o.e.invalid[i])
====
